---- MODULE Spec2Model ----
(***************************************************************************)
(* Change Staging & Reconciliation Engine of the workbench: the staging    *)
(* store (lib/stores/staging), its reconciler applyAcceptedChanges, the    *)
(* pending-command queue, and the Accept All flow of StagedChangesPanel.   *)
(*                                                                         *)
(* Strings the code inspects character by character (file paths, glob      *)
(* patterns, command texts, ids) are sequences of one-character strings.   *)
(* File contents are never inspected and stay atomic strings.              *)
(***************************************************************************)
EXTENDS Integers, Sequences, FiniteSets, TLC

VARIABLES
    changes,             \* StagingState.changes, in key (insertion) order
    selectedChangePath,  \* StagingState.selectedChangePath
    isDiffModalOpen,     \* StagingState.isDiffModalOpen
    settings,            \* StagingState.settings
    pendingCommands,     \* StagingState.pendingCommands
    isPreviewMode,       \* StagingState.isPreviewMode (read by the panel)
    nextId,              \* source of generateChangeId
    fs,                  \* ProjectHost files, by relative path
    apply,               \* the applyAcceptedChanges invocation
    drain,               \* the executePendingCommands invocation
    shell,               \* the terminal: dispatch log and running commands
    flow,                \* the handleAcceptAll invocation
    retry,               \* what a caller that re-invokes the Reconciler keeps
    io,                  \* the revert or preview invocation awaiting ProjectHost
    versions,            \* Version Store: the versions created so far
    last                 \* the last completed call and what it returned

vars == <<changes, selectedChangePath, isDiffModalOpen, settings,
          pendingCommands, isPreviewMode, nextId, fs, apply, drain, shell,
          flow, retry, io, versions, last>>

storeVars == <<changes, selectedChangePath, isDiffModalOpen, settings,
               pendingCommands, isPreviewMode>>

-----------------------------------------------------------------------------
(* Bounds *)

\* number of generateChangeId calls in a run of the Change Store
MaxIds == 3

\* number of generateChangeId calls in a run with the Reconciler
MaxApplyIds == 2

\* number of generateChangeId calls in a run of the Command Queue
MaxQueueIds == 3

\* number of generateChangeId calls in a run of the queue with its drain
MaxDrainIds == 3

\* number of generateChangeId calls in a run of the Accept All flow
MaxFlowIds == 3

\* number of generateChangeId calls in a run with changing settings
MaxSettingsIds == 2

\* number of stageChange calls in a run that compares two of them
MaxPairIds == 2

\* number of generateChangeId calls in a run with the revert operations
MaxRevertIds == 2

\* number of generateChangeId calls in a run with preview mode
MaxPreviewIds == 2

\* number of generateChangeId calls in a run with checkpoints
MaxCheckpointIds == 2

-----------------------------------------------------------------------------
(* Values *)

Null == "<null>"

Absent == "<absent>"

\* "src/a.ts"
PathSrc == <<"s", "r", "c", "/", "a", ".", "t", "s">>

\* "a.log", matched by the default pattern "*.log"
PathLog == <<"a", ".", "l", "o", "g">>

\* "/home/project/src/a.ts", the absolute-looking spelling of PathSrc
PathAbs == <<"/", "h", "o", "m", "e", "/", "p", "r", "o", "j", "e", "c", "t",
             "/", "s", "r", "c", "/", "a", ".", "t", "s">>

Paths == {PathSrc, PathLog}

ActionIds == {"action-1"}

DigitStr == <<"1", "2", "3", "4", "5", "6", "7", "8", "9">>

-----------------------------------------------------------------------------
(* String helpers: what the JavaScript string methods used below compute *)

\* String.prototype.startsWith
StartsWith(s, p) == Len(p) <= Len(s) /\ SubSeq(s, 1, Len(p)) = p

\* String.prototype.endsWith
EndsWith(s, x) == Len(x) <= Len(s) /\ SubSeq(s, Len(s) - Len(x) + 1, Len(s)) = x

\* sub occurs in s at position i
OccursAt(s, sub, i) == i + Len(sub) - 1 <= Len(s) /\ SubSeq(s, i, i + Len(sub) - 1) = sub

\* String.prototype.includes
Includes(s, sub) == \E i \in 1..(Len(s) + 1) : OccursAt(s, sub, i)

\* position of the first occurrence of sub in s, 0 when there is none
IndexOf(s, sub) ==
    LET hits == {i \in 1..(Len(s) + 1) : OccursAt(s, sub, i)}
    IN IF hits = {} THEN 0 ELSE CHOOSE i \in hits : \A j \in hits : i <= j

\* String.prototype.split with a non-empty separator
RECURSIVE Split(_, _)
Split(s, sep) ==
    LET at == IndexOf(s, sep)
    IN IF at = 0
       THEN <<s>>
       ELSE <<SubSeq(s, 1, at - 1)>> \o Split(SubSeq(s, at + Len(sep), Len(s)), sep)

\* s.split('/').pop()
FileName(s) == LET parts == Split(s, <<"/">>) IN parts[Len(parts)]

\* parts.join('/')
RECURSIVE JoinSlash(_)
JoinSlash(parts) ==
    IF Len(parts) = 0 THEN <<>>
    ELSE IF Len(parts) = 1 THEN parts[1]
    ELSE parts[1] \o <<"/">> \o JoinSlash(Tail(parts))

\* NormalizePath that leaves the backslashes in place
NormalizePathKeeps(filePath) == filePath

\* filePath.replace(/\\/g, '/')
NormalizePath(filePath) ==
    [i \in 1..Len(filePath) |-> IF filePath[i] = "\\" THEN "/" ELSE filePath[i]]

\* characters the regular expression '.' does not match
LineTerminators == {"\n", "\r"}

\* new RegExp('^' + pattern.replace(/\./g, '\\.').replace(/\*/g, '.*') + '$').test(s)
\* for patterns over letters, digits, '.', '-', '_', '/' and '*': every
\* character stands for itself and '*' for any run without line terminators
RECURSIVE RegexTest(_, _)
RegexTest(pattern, s) ==
    IF Len(pattern) = 0 THEN Len(s) = 0
    ELSE IF pattern[1] = "*"
    THEN \E k \in 0..Len(s) :
            /\ \A j \in 1..k : s[j] \notin LineTerminators
            /\ RegexTest(Tail(pattern), SubSeq(s, k + 1, Len(s)))
    ELSE Len(s) > 0 /\ s[1] = pattern[1] /\ RegexTest(Tail(pattern), Tail(s))

\* one iteration of the loop of matchesAutoApprovePattern
PatternMatches(normalizedPath, pattern) ==
    IF Includes(pattern, <<"*", "*">>)
    THEN LET parts == Split(pattern, <<"*", "*">>)
         IN /\ Len(parts) = 2
            /\ StartsWith(normalizedPath, parts[1])
            /\ EndsWith(normalizedPath, parts[2])
    ELSE IF Includes(pattern, <<"*">>)
    THEN \/ RegexTest(pattern, normalizedPath)
         \/ RegexTest(pattern, FileName(normalizedPath))
    ELSE \/ normalizedPath = pattern
         \/ FileName(normalizedPath) = pattern

matchesAutoApprovePattern(filePath, patterns) ==
    \E i \in 1..Len(patterns) : PatternMatches(NormalizePath(filePath), patterns[i])

\* "/home/project"
WorkDirPrefix == <<"/", "h", "o", "m", "e", "/", "p", "r", "o", "j", "e", "c", "t">>

\* change.filePath.replace(/^\/home\/project\/?/, '')
RelativePath(filePath) ==
    IF StartsWith(filePath, WorkDirPrefix \o <<"/">>)
    THEN SubSeq(filePath, Len(WorkDirPrefix) + 2, Len(filePath))
    ELSE IF StartsWith(filePath, WorkDirPrefix)
    THEN SubSeq(filePath, Len(WorkDirPrefix) + 1, Len(filePath))
    ELSE filePath

\* relativePath.split('/').slice(0, -1).join('/')
DirOf(relativePath) ==
    LET pathParts == Split(relativePath, <<"/">>)
    IN JoinSlash(SubSeq(pathParts, 1, Len(pathParts) - 1))

-----------------------------------------------------------------------------
(* Defaults *)

DEFAULT_AUTO_APPROVE_PATTERNS ==
    << <<"p","a","c","k","a","g","e","-","l","o","c","k",".","j","s","o","n">>,
       <<"p","n","p","m","-","l","o","c","k",".","y","a","m","l">>,
       <<"y","a","r","n",".","l","o","c","k">>,
       <<"*",".","l","o","c","k">>,
       <<"n","o","d","e","_","m","o","d","u","l","e","s","/","*","*">>,
       <<".","g","i","t","/","*","*">>,
       <<"*",".","l","o","g">> >>

DEFAULT_SETTINGS ==
    [isEnabled |-> TRUE,
     autoApproveEnabled |-> TRUE,
     autoApprovePatterns |-> DEFAULT_AUTO_APPROVE_PATTERNS,
     requireDeleteConfirmation |-> TRUE,
     showInlineDiffPreview |-> TRUE,
     autoCheckpointOnAccept |-> TRUE]

\* generateChangeId: "change-" and a token that is fresh on every call
generateChangeId(n) == <<"c", "h", "a", "n", "g", "e", "-", DigitStr[n]>>

Ids == {generateChangeId(n) : n \in 1..Len(DigitStr)}

-----------------------------------------------------------------------------
(* The changes record: an object whose keys keep their insertion order *)

\* an absent value (null, undefined) is the empty sequence, a present one <<v>>
None == <<>>

Some(v) == <<v>>

HasKey(chs, path) == \E i \in 1..Len(chs) : chs[i].filePath = path

KeyIndex(chs, path) == CHOOSE i \in 1..Len(chs) : chs[i].filePath = path

\* state.changes[path]
Lookup(chs, path) == IF HasKey(chs, path) THEN Some(chs[KeyIndex(chs, path)]) ELSE None

\* SetKey as a list push: the record is added whether or not the key exists
SetKeyPush(chs, path, rec) == Append(chs, rec)

\* { ...chs, [path]: rec }: an existing key keeps its place, a new one goes last
SetKey(chs, path, rec) ==
    IF HasKey(chs, path)
    THEN [i \in 1..Len(chs) |-> IF chs[i].filePath = path THEN rec ELSE chs[i]]
    ELSE Append(chs, rec)

\* const { [path]: removed, ...remaining } = chs
DeleteKey(chs, path) == SelectSeq(chs, LAMBDA c : c.filePath # path)

WithStatus(chs, st) == SelectSeq(chs, LAMBDA c : c.status = st)

\* computed store pendingChanges
pendingChanges == WithStatus(changes, "pending")

getAcceptedChanges == WithStatus(changes, "accepted")

getRejectedChanges == WithStatus(changes, "rejected")

\* ResolveIndex that looks for the id first and for the key after
ResolveIndexIdFirst(chs, filePathOrId) ==
    IF \E i \in 1..Len(chs) : chs[i].id = filePathOrId
    THEN CHOOSE i \in 1..Len(chs) :
            /\ chs[i].id = filePathOrId
            /\ \A j \in 1..(i - 1) : chs[j].id # filePathOrId
    ELSE IF HasKey(chs, filePathOrId)
    THEN KeyIndex(chs, filePathOrId)
    ELSE 0

\* the lookup of acceptChange / rejectChange: by key first, then the first
\* entry whose id is the argument; 0 when neither exists
ResolveIndex(chs, filePathOrId) ==
    IF HasKey(chs, filePathOrId)
    THEN KeyIndex(chs, filePathOrId)
    ELSE IF \E i \in 1..Len(chs) : chs[i].id = filePathOrId
    THEN CHOOSE i \in 1..Len(chs) :
            /\ chs[i].id = filePathOrId
            /\ \A j \in 1..(i - 1) : chs[j].id # filePathOrId
    ELSE 0

-----------------------------------------------------------------------------
(* Inputs *)

ChangeTypes == {"create", "modify", "delete"}

\* what the action pipeline hands to stageChange
StageInputs ==
    {[filePath |-> p, type |-> "create", originalContent |-> Null,
      newContent |-> "B", actionId |-> a] : p \in Paths, a \in ActionIds}
    \cup
    {[filePath |-> p, type |-> "modify", originalContent |-> "A",
      newContent |-> "B", actionId |-> a] : p \in Paths, a \in ActionIds}
    \cup
    {[filePath |-> p, type |-> "delete", originalContent |-> "A",
      newContent |-> "", actionId |-> a] : p \in Paths, a \in ActionIds}

\* what callers pass to acceptChange / rejectChange: a path or an id
TargetArgs == Paths \cup {generateChangeId(n) : n \in 1..MaxIds}

RelPaths == {RelativePath(p) : p \in Paths}

\* the project before anything is staged: src/a.ts exists, a.log does not
InitialFiles == [r \in RelPaths |-> IF r = RelativePath(PathSrc) THEN "A" ELSE Absent]

-----------------------------------------------------------------------------
(* Change Store operations *)

Called(op, arg, ret) == last' = [op |-> op, arg |-> arg, ret |-> ret]

\* AutoApproved that lets a delete through whatever requireDeleteConfirmation
AutoApprovedDeletes(st, change) ==
    IF st.autoApproveEnabled
    THEN matchesAutoApprovePattern(change.filePath, st.autoApprovePatterns)
    ELSE FALSE

\* AutoApproved that also approves a path whose earlier entry was accepted
AutoApprovedSticky(st, change) ==
    \/ /\ st.autoApproveEnabled
       /\ ~(change.type = "delete" /\ st.requireDeleteConfirmation)
       /\ matchesAutoApprovePattern(change.filePath, st.autoApprovePatterns)
    \/ /\ HasKey(changes, change.filePath)
       /\ Lookup(changes, change.filePath)[1].status = "accepted"

\* the autoApproved flag stageChange computes
AutoApproved(st, change) ==
    IF st.autoApproveEnabled
    THEN IF change.type = "delete" /\ st.requireDeleteConfirmation
         THEN FALSE
         ELSE matchesAutoApprovePattern(change.filePath, st.autoApprovePatterns)
    ELSE FALSE

\* the record stageChange builds
StagedChange(change, id, autoApproved) ==
    [id |-> id,
     filePath |-> change.filePath,
     type |-> change.type,
     originalContent |-> change.originalContent,
     newContent |-> change.newContent,
     actionId |-> change.actionId,
     status |-> IF autoApproved THEN "accepted" ELSE "pending",
     autoApproved |-> autoApproved]

\* stageChange without the isEnabled gate
stageChangeUngated(change) ==
    /\ LET stagedChange == StagedChange(change, generateChangeId(nextId),
                                        AutoApproved(settings, change))
       IN /\ changes' = SetKey(changes, change.filePath, stagedChange)
          /\ Called("stageChange", change, Some(stagedChange))
    /\ nextId' = nextId + 1
    /\ UNCHANGED <<selectedChangePath, isDiffModalOpen, settings,
                   pendingCommands, isPreviewMode>>

stageChange(change) ==
    IF ~settings.isEnabled
    THEN /\ Called("stageChange", change, None)
         /\ UNCHANGED <<storeVars, nextId>>
    ELSE /\ LET stagedChange == StagedChange(change, generateChangeId(nextId),
                                             AutoApproved(settings, change))
            IN /\ changes' = SetKey(changes, change.filePath, stagedChange)
               /\ Called("stageChange", change, Some(stagedChange))
         /\ nextId' = nextId + 1
         /\ UNCHANGED <<selectedChangePath, isDiffModalOpen, settings,
                        pendingCommands, isPreviewMode>>

\* Resolve without the test that the entry is still pending
ResolveAnyStatus(op, filePathOrId, status) ==
    LET i == ResolveIndex(changes, filePathOrId) IN
    IF i = 0
    THEN /\ Called(op, filePathOrId, None)
         /\ UNCHANGED storeVars
    ELSE LET updatedChange == [changes[i] EXCEPT !.status = status]
         IN /\ changes' = SetKey(changes, changes[i].filePath, updatedChange)
            /\ Called(op, filePathOrId, Some(updatedChange))
            /\ UNCHANGED <<selectedChangePath, isDiffModalOpen, settings,
                           pendingCommands, isPreviewMode>>

\* Resolve that marks an accepted entry as auto-approved
ResolveMarks(op, filePathOrId, status) ==
    LET i == ResolveIndex(changes, filePathOrId) IN
    IF i = 0 \/ (i # 0 /\ changes[i].status # "pending")
    THEN /\ Called(op, filePathOrId, None)
         /\ UNCHANGED storeVars
    ELSE LET updatedChange == [changes[i] EXCEPT
                                 !.status = status,
                                 !.autoApproved = (status = "accepted")]
         IN /\ changes' = SetKey(changes, changes[i].filePath, updatedChange)
            /\ Called(op, filePathOrId, Some(updatedChange))
            /\ UNCHANGED <<selectedChangePath, isDiffModalOpen, settings,
                           pendingCommands, isPreviewMode>>

\* acceptChange and rejectChange differ in the status they set
Resolve(op, filePathOrId, status) ==
    LET i == ResolveIndex(changes, filePathOrId) IN
    IF i = 0 \/ (i # 0 /\ changes[i].status # "pending")
    THEN /\ Called(op, filePathOrId, None)
         /\ UNCHANGED storeVars
    ELSE LET updatedChange == [changes[i] EXCEPT !.status = status]
         IN /\ changes' = SetKey(changes, changes[i].filePath, updatedChange)
            /\ Called(op, filePathOrId, Some(updatedChange))
            /\ UNCHANGED <<selectedChangePath, isDiffModalOpen, settings,
                           pendingCommands, isPreviewMode>>

acceptChange(filePathOrId) == Resolve("acceptChange", filePathOrId, "accepted")

\* rejectChange that refuses while a batch awaits ProjectHost
rejectChangeWhenIdle(filePathOrId) ==
    IF apply.pc # "idle"
    THEN /\ Called("rejectChange", filePathOrId, None)
         /\ UNCHANGED storeVars
    ELSE Resolve("rejectChange", filePathOrId, "rejected")

rejectChange(filePathOrId) == Resolve("rejectChange", filePathOrId, "rejected")

\* acceptAllChanges and rejectAllChanges differ in the status they set
\* ResolvedAll that gives the status to every entry
ResolvedAllAny(chs, status) ==
    [i \in 1..Len(chs) |-> [chs[i] EXCEPT !.status = status]]

\* the changes map after every pending entry has been given the status
ResolvedAll(chs, status) ==
    [i \in 1..Len(chs) |->
        IF chs[i].status = "pending"
        THEN [chs[i] EXCEPT !.status = status]
        ELSE chs[i]]

\* the entries a bulk call returns: those it has taken out of pending
Transitioned(chs, status) ==
    SelectSeq(ResolvedAll(chs, status),
              LAMBDA c : \E i \in 1..Len(chs) :
                            /\ chs[i].id = c.id
                            /\ chs[i].status = "pending")

ResolveAll(op, status) ==
    /\ changes' = IF Len(Transitioned(changes, status)) > 0
                  THEN ResolvedAll(changes, status)
                  ELSE changes
    /\ Called(op, None, Transitioned(changes, status))
    /\ UNCHANGED <<selectedChangePath, isDiffModalOpen, settings,
                   pendingCommands, isPreviewMode>>

acceptAllChanges == ResolveAll("acceptAllChanges", "accepted")

rejectAllChanges == ResolveAll("rejectAllChanges", "rejected")

\* the file map of a checkpoint: the originalContent of every pending entry
\* that has one, keyed by filePath
CheckpointFiles(pending) ==
    {<<pending[i].filePath, pending[i].originalContent>> :
        i \in {k \in 1..Len(pending) : pending[k].originalContent # Null}}

\* Checkpointed that does not read autoCheckpointOnAccept
CheckpointedAlways(chs, stg, vs) ==
    LET pending == WithStatus(chs, "pending") IN
    IF Len(pending) = 0
    THEN [id |-> None, versions |-> vs]
    ELSE [id |-> Some(Len(vs) + 1),
          versions |-> Append(vs, [id |-> Len(vs) + 1,
                                   count |-> Len(pending),
                                   files |-> CheckpointFiles(pending)])]

\* createCheckpointBeforeAccept on a store: the id it returns and the
\* Version Store after it
Checkpointed(chs, stg, vs) ==
    LET pending == WithStatus(chs, "pending") IN
    IF Len(pending) = 0 \/ ~stg.autoCheckpointOnAccept
    THEN [id |-> None, versions |-> vs]
    ELSE [id |-> Some(Len(vs) + 1),
          versions |-> Append(vs, [id |-> Len(vs) + 1,
                                   count |-> Len(pending),
                                   files |-> CheckpointFiles(pending)])]

createCheckpointBeforeAccept ==
    /\ versions' = Checkpointed(changes, settings, versions).versions
    /\ Called("createCheckpointBeforeAccept", None,
              Checkpointed(changes, settings, versions).id)
    /\ UNCHANGED storeVars

\* acceptAllWithCheckpoint that accepts first and takes the checkpoint after
acceptAllWithCheckpointAfter ==
    LET after == ResolvedAll(changes, "accepted")
        c == Checkpointed(after, settings, versions)
    IN
    /\ versions' = c.versions
    /\ changes' = after
    /\ Called("acceptAllWithCheckpoint", None,
              [accepted |-> Transitioned(changes, "accepted"),
               checkpointId |-> c.id])
    /\ UNCHANGED <<selectedChangePath, isDiffModalOpen, settings,
                   pendingCommands, isPreviewMode>>

\* createCheckpointBeforeAccept(), then acceptAllChanges()
acceptAllWithCheckpoint ==
    LET c == Checkpointed(changes, settings, versions) IN
    /\ versions' = c.versions
    /\ changes' = IF Len(Transitioned(changes, "accepted")) > 0
                  THEN ResolvedAll(changes, "accepted")
                  ELSE changes
    /\ Called("acceptAllWithCheckpoint", None,
              [accepted |-> Transitioned(changes, "accepted"),
               checkpointId |-> c.id])
    /\ UNCHANGED <<selectedChangePath, isDiffModalOpen, settings,
                   pendingCommands, isPreviewMode>>

clearStaging ==
    /\ changes' = <<>>
    /\ selectedChangePath' = None
    /\ isDiffModalOpen' = FALSE
    /\ Called("clearStaging", None, None)
    /\ UNCHANGED <<settings, pendingCommands, isPreviewMode>>

\* clearProcessedChanges that keeps the rejected entries as well
clearProcessedChangesKeepsRejected ==
    /\ changes' = SelectSeq(changes, LAMBDA c : c.status # "accepted")
    /\ Called("clearProcessedChanges", None, None)
    /\ UNCHANGED <<selectedChangePath, isDiffModalOpen, settings,
                   pendingCommands, isPreviewMode>>

\* the store keeps the entries whose status is pending, in their order
clearProcessedChanges ==
    /\ changes' = WithStatus(changes, "pending")
    /\ Called("clearProcessedChanges", None, None)
    /\ UNCHANGED <<selectedChangePath, isDiffModalOpen, settings,
                   pendingCommands, isPreviewMode>>

\* the store after removeChange(filePath)
RemovedChanges(chs, filePath) == DeleteKey(chs, filePath)

RemovedSelection(chs, sel, filePath) ==
    IF HasKey(chs, filePath) /\ sel = Some(filePath) THEN None ELSE sel

removeChange(filePath) ==
    /\ changes' = RemovedChanges(changes, filePath)
    /\ selectedChangePath' = RemovedSelection(changes, selectedChangePath, filePath)
    /\ Called("removeChange", filePath, None)
    /\ UNCHANGED <<isDiffModalOpen, settings, pendingCommands, isPreviewMode>>

selectChange(filePath) ==
    /\ selectedChangePath' = filePath
    /\ Called("selectChange", filePath, None)
    /\ UNCHANGED <<changes, isDiffModalOpen, settings, pendingCommands,
                   isPreviewMode>>

\* updateSettings that re-evaluates auto-approval for the pending entries
updateSettingsReapplies(updates) ==
    LET newSettings == [k \in DOMAIN settings |->
                           IF k \in DOMAIN updates THEN updates[k]
                           ELSE settings[k]]
    IN /\ settings' = newSettings
       /\ changes' = [i \in 1..Len(changes) |->
              IF /\ changes[i].status = "pending"
                 /\ newSettings.autoApproveEnabled
                 /\ matchesAutoApprovePattern(changes[i].filePath,
                                              newSettings.autoApprovePatterns)
              THEN [changes[i] EXCEPT !.status = "accepted"]
              ELSE changes[i]]
       /\ UNCHANGED <<selectedChangePath, isDiffModalOpen,
                      pendingCommands, isPreviewMode>>

updateSettings(updates) ==
    /\ settings' = [k \in DOMAIN settings |->
                       IF k \in DOMAIN updates THEN updates[k] ELSE settings[k]]
    /\ UNCHANGED <<changes, selectedChangePath, isDiffModalOpen,
                   pendingCommands, isPreviewMode>>

toggleStaging ==
    /\ updateSettings([isEnabled |-> ~settings.isEnabled])
    /\ Called("toggleStaging", None, ~settings.isEnabled)

\* updateSettings called by itself
updateSettingsCall(updates) ==
    /\ updateSettings(updates)
    /\ Called("updateSettings", updates, None)

addAutoApprovePattern(pattern) ==
    IF \E i \in 1..Len(settings.autoApprovePatterns) :
          settings.autoApprovePatterns[i] = pattern
    THEN /\ Called("addAutoApprovePattern", pattern, None)
         /\ UNCHANGED storeVars
    ELSE /\ updateSettings([autoApprovePatterns |->
                               Append(settings.autoApprovePatterns, pattern)])
         /\ Called("addAutoApprovePattern", pattern, None)

removeAutoApprovePattern(pattern) ==
    /\ updateSettings([autoApprovePatterns |->
                          SelectSeq(settings.autoApprovePatterns,
                                    LAMBDA q : q # pattern)])
    /\ Called("removeAutoApprovePattern", pattern, None)

resetSettings ==
    /\ updateSettings(DEFAULT_SETTINGS)
    /\ Called("resetSettings", None, None)

-----------------------------------------------------------------------------
(* Reconciler: applyAcceptedChanges, one step per awaited ProjectHost call *)

ApplyIdle ==
    [pc |-> "idle", accepted |-> <<>>, i |-> 0, applied |-> <<>>,
     failed |-> <<>>]

\* the ProjectHost call the loop awaits first for entry i, "idle" past the end
FirstCall(accepted, i) ==
    IF i > Len(accepted) THEN "idle"
    ELSE IF accepted[i].type = "delete" THEN "rm"
    ELSE IF DirOf(RelativePath(accepted[i].filePath)) # <<>> THEN "mkdir"
    ELSE "writeFile"

ApplyResult(applied, failed) == [applied |-> applied, failed |-> failed]

\* the loop moves to entry i with the given lists, or returns them
ApplyAdvance(accepted, i, applied, failed) ==
    /\ apply' = [pc |-> FirstCall(accepted, i),
                 accepted |-> accepted,
                 i |-> i,
                 applied |-> applied,
                 failed |-> failed]
    /\ IF FirstCall(accepted, i) = "idle"
       THEN Called("applyAcceptedChanges", None, ApplyResult(applied, failed))
       ELSE UNCHANGED last

\* call: const accepted = getAcceptedChanges(), up to the first await
applyAcceptedChanges ==
    /\ apply.pc = "idle"
    /\ ApplyAdvance(getAcceptedChanges, 1, <<>>, <<>>)
    /\ UNCHANGED <<storeVars, nextId, fs>>

\* mkdir settles: a failure is swallowed, the write is awaited next
ApplyMkdir(ok) ==
    /\ apply.pc = "mkdir"
    /\ apply' = [apply EXCEPT !.pc = "writeFile"]
    /\ UNCHANGED <<storeVars, nextId, fs, last>>

\* ApplySucceeded that leaves the applied entry in the store
ApplySucceededKeeps ==
    LET change == apply.accepted[apply.i] IN
    /\ ApplyAdvance(apply.accepted, apply.i + 1,
                    Append(apply.applied, change.filePath), apply.failed)
    /\ UNCHANGED <<storeVars, nextId>>

\* applied.push(change.filePath); removeChange(change.filePath)
ApplySucceeded ==
    LET change == apply.accepted[apply.i] IN
    /\ changes' = RemovedChanges(changes, change.filePath)
    /\ selectedChangePath' =
           RemovedSelection(changes, selectedChangePath, change.filePath)
    /\ ApplyAdvance(apply.accepted, apply.i + 1,
                    Append(apply.applied, change.filePath), apply.failed)
    /\ UNCHANGED <<isDiffModalOpen, settings, pendingCommands, isPreviewMode,
                   nextId>>

\* ApplyFailed that drops the failed entry from the store
ApplyFailedRemoves ==
    LET change == apply.accepted[apply.i] IN
    /\ changes' = RemovedChanges(changes, change.filePath)
    /\ selectedChangePath' =
           RemovedSelection(changes, selectedChangePath, change.filePath)
    /\ ApplyAdvance(apply.accepted, apply.i + 1, apply.applied,
                    Append(apply.failed,
                           [path |-> change.filePath, error |-> "Error"]))
    /\ UNCHANGED <<isDiffModalOpen, settings, pendingCommands, isPreviewMode,
                   nextId, fs>>

\* failed.push({ path, error }); the entry is left for retry
ApplyFailed ==
    LET change == apply.accepted[apply.i] IN
    /\ ApplyAdvance(apply.accepted, apply.i + 1, apply.applied,
                    Append(apply.failed,
                           [path |-> change.filePath, error |-> "Error"]))
    /\ UNCHANGED <<storeVars, nextId, fs>>

\* rm settles
ApplyRm(ok) ==
    /\ apply.pc = "rm"
    /\ IF ok
       THEN /\ fs' = [fs EXCEPT ![RelativePath(apply.accepted[apply.i].filePath)] = Absent]
            /\ ApplySucceeded
       ELSE ApplyFailed

\* writeFile settles
ApplyWriteFile(ok) ==
    /\ apply.pc = "writeFile"
    /\ IF ok
       THEN /\ fs' = [fs EXCEPT ![RelativePath(apply.accepted[apply.i].filePath)] =
                                     apply.accepted[apply.i].newContent]
            /\ ApplySucceeded
       ELSE ApplyFailed

-----------------------------------------------------------------------------
(* Command Queue: pendingCommands, in insertion order *)

\* characters String.prototype.trim strips, as far as the inputs hold them
WhiteSpace == {" ", "\t", "\n", "\r"}

RECURSIVE TrimStart(_)
TrimStart(s) ==
    IF s # <<>> /\ Head(s) \in WhiteSpace THEN TrimStart(Tail(s)) ELSE s

RECURSIVE TrimEnd(_)
TrimEnd(s) ==
    IF s # <<>> /\ s[Len(s)] \in WhiteSpace
    THEN TrimEnd(SubSeq(s, 1, Len(s) - 1))
    ELSE s

\* String.prototype.trim
Trim(s) == TrimEnd(TrimStart(s))

\* s.replace(/\r\n/g, '\n')
RECURSIVE ReplaceCRLF(_)
ReplaceCRLF(s) ==
    IF s = <<>> THEN <<>>
    ELSE IF Len(s) >= 2 /\ s[1] = "\r" /\ s[2] = "\n"
         THEN <<"\n">> \o ReplaceCRLF(SubSeq(s, 3, Len(s)))
         ELSE <<s[1]>> \o ReplaceCRLF(Tail(s))

\* command.trim().replace(/\r\n/g, '\n')
NormalizedCommand(command) == ReplaceCRLF(Trim(command))

\* isDuplicateCommand that compares the texts as they are
isDuplicateCommandExact(existingCommands, newCommand) ==
    \E i \in 1..Len(existingCommands) :
        /\ existingCommands[i].type = newCommand.type
        /\ existingCommands[i].command = newCommand.command

isDuplicateCommand(existingCommands, newCommand) ==
    \E i \in 1..Len(existingCommands) :
        /\ existingCommands[i].type = newCommand.type
        /\ NormalizedCommand(existingCommands[i].command) =
               NormalizedCommand(newCommand.command)

\* the record queueCommand builds
PendingCommand(command, id) ==
    [id |-> id,
     type |-> command.type,
     command |-> command.command,
     artifactId |-> command.artifactId]

queueCommand(command) ==
    IF isDuplicateCommand(pendingCommands, command)
    THEN /\ Called("queueCommand", command, None)
         /\ UNCHANGED <<storeVars, nextId>>
    ELSE /\ LET pendingCommand == PendingCommand(command, generateChangeId(nextId))
            IN /\ pendingCommands' = Append(pendingCommands, pendingCommand)
               /\ Called("queueCommand", command, Some(pendingCommand))
         /\ nextId' = nextId + 1
         /\ UNCHANGED <<changes, selectedChangePath, isDiffModalOpen, settings,
                        isPreviewMode>>

clearPendingCommands ==
    /\ pendingCommands' = <<>>
    /\ Called("clearPendingCommands", None, None)
    /\ UNCHANGED <<changes, selectedChangePath, isDiffModalOpen, settings,
                   isPreviewMode>>

removePendingCommand(commandId) ==
    LET filtered == SelectSeq(pendingCommands, LAMBDA cmd : cmd.id # commandId) IN
    /\ pendingCommands' = filtered
    /\ Called("removePendingCommand", commandId,
              Len(filtered) < Len(pendingCommands))
    /\ UNCHANGED <<changes, selectedChangePath, isDiffModalOpen, settings,
                   isPreviewMode>>

\* command texts: a plain one, the same with white space around it, a
\* two-line one with CRLF and the same with LF
TextA == <<"a">>
TextAPadded == <<" ", "a", "\n">>
TextCRLF == <<"a", "\r", "\n", "b">>
TextLF == <<"a", "\n", "b">>

CommandTexts == {TextA, TextAPadded, TextCRLF, TextLF}

CommandTypes == {"shell", "start"}

ArtifactIds == {"artifact-1"}

CommandInputs ==
    [type : CommandTypes, command : CommandTexts, artifactId : ArtifactIds]

-----------------------------------------------------------------------------
(* The panel: Accept All, which applies the accepted changes and then      *)
(* drains the queue (executePendingCommands), one step per awaited call    *)

\* executePendingCommands is not running
DrainIdle == [pc |-> "idle", commands |-> <<>>, i |-> 0]

\* the shell: the executeCommand calls it has received, in order, each
\* running until its promise settles
ShellIdle == [log |-> <<>>]

\* no handler of the panel is running (isApplying is false)
FlowIdle == [pc |-> "idle", commands |-> <<>>, gating |-> <<>>]

\* shell.executeCommand(`staged-${cmd.id}`, cmd.command) has been called
Dispatched(cmd) ==
    [id |-> cmd.id, type |-> cmd.type, command |-> cmd.command,
     state |-> "running"]

\* DispatchFrom that walks the batch from its end
RECURSIVE DispatchFromLast(_, _, _)
DispatchFromLast(log, commands, i) ==
    LET k == Len(commands) + 1 - i IN
    IF i > Len(commands)
    THEN [log |-> log, i |-> i, pc |-> "idle"]
    ELSE IF commands[k].type = "start"
         THEN DispatchFromLast(Append(log, Dispatched(commands[k])), commands, i + 1)
         ELSE [log |-> Append(log, Dispatched(commands[k])), i |-> i, pc |-> "exec"]

\* the for loop from command i up to the next await: start commands are
\* dispatched and passed, a shell command is dispatched and awaited
RECURSIVE DispatchFrom(_, _, _)
DispatchFrom(log, commands, i) ==
    IF i > Len(commands)
    THEN [log |-> log, i |-> i, pc |-> "idle"]
    ELSE IF commands[i].type = "start"
         THEN DispatchFrom(Append(log, Dispatched(commands[i])), commands, i + 1)
         ELSE [log |-> Append(log, Dispatched(commands[i])), i |-> i, pc |-> "exec"]

\* executePendingCommands, from the call to its first await: commands is
\* the pendingCmds the handler's closure holds
DrainBegin(commands, gating) ==
    IF Len(commands) = 0
    THEN /\ drain' = DrainIdle
         /\ flow' = [pc |-> "snapshot", commands |-> <<>>, gating |-> <<>>]
    ELSE /\ drain' = [pc |-> "ready", commands |-> commands, i |-> 0]
         /\ flow' = [pc |-> "drain", commands |-> commands, gating |-> gating]

\* DrainContinue that clears the queue as soon as the loop has started
DrainContinueClearsFirst(log, i) ==
    LET d == DispatchFrom(log, drain.commands, i) IN
    /\ shell' = [log |-> d.log]
    /\ pendingCommands' = <<>>
    /\ IF d.pc = "idle"
       THEN /\ drain' = DrainIdle
            /\ flow' = [pc |-> "snapshot", commands |-> <<>>, gating |-> <<>>]
            /\ Called("executePendingCommands", None, None)
       ELSE /\ drain' = [drain EXCEPT !.pc = "exec", !.i = d.i]
            /\ UNCHANGED <<flow, last>>
    /\ UNCHANGED <<changes, selectedChangePath, isDiffModalOpen, settings,
                   isPreviewMode, nextId, fs, apply, retry, io, versions>>

\* the loop goes on from command i; past the last command
\* clearPendingCommands() is called and executePendingCommands returns
DrainContinue(log, i) ==
    LET d == DispatchFrom(log, drain.commands, i) IN
    /\ shell' = [log |-> d.log]
    /\ IF d.pc = "idle"
       THEN /\ pendingCommands' = <<>>
            /\ drain' = DrainIdle
            /\ flow' = [pc |-> "snapshot", commands |-> <<>>, gating |-> <<>>]
            /\ Called("executePendingCommands", None, None)
       ELSE /\ drain' = [drain EXCEPT !.pc = "exec", !.i = d.i]
            /\ UNCHANGED <<pendingCommands, flow, last>>
    /\ UNCHANGED <<changes, selectedChangePath, isDiffModalOpen, settings,
                   isPreviewMode, nextId, fs, apply, retry, io, versions>>

\* await shell.ready() settles; a rejection leaves executePendingCommands
\* and handleAcceptAll, whose finally block resets isApplying
DrainReady(ok) ==
    /\ drain.pc = "ready"
    /\ IF ok
       THEN DrainContinue(shell.log, 1)
       ELSE /\ drain' = DrainIdle
            /\ flow' = FlowIdle
            /\ UNCHANGED <<storeVars, nextId, fs, apply, shell, retry, io, last,
                           versions>>

\* the awaited shell command settles; a rejection is caught in the loop
DrainExec(ok) ==
    /\ drain.pc = "exec"
    /\ DrainContinue([shell.log EXCEPT ![Len(shell.log)].state =
                                          IF ok THEN "done" ELSE "failed"],
                     drain.i + 1)

\* the promise of a start command settles; its .catch takes a rejection
StartSettles(k, ok) ==
    /\ k \in 1..Len(shell.log)
    /\ shell.log[k].type = "start"
    /\ shell.log[k].state = "running"
    /\ shell' = [log |-> [shell.log EXCEPT ![k].state =
                                  IF ok THEN "done" ELSE "failed"]]
    /\ UNCHANGED <<storeVars, nextId, fs, apply, drain, flow, retry, io,
                   last, versions>>

\* handleAcceptAll that applies the accepted changes in preview mode too
handleAcceptAllRewrites ==
    LET transitioned == Transitioned(changes, "accepted")
        accepted == WithStatus(ResolvedAll(changes, "accepted"), "accepted")
    IN
    /\ flow.pc = "idle"
    /\ settings.isEnabled
    /\ pendingChanges # <<>> \/ pendingCommands # <<>>
    /\ changes' = ResolvedAll(changes, "accepted")
    /\ isPreviewMode' = FALSE
    /\ apply' = [pc |-> FirstCall(accepted, 1),
                 accepted |-> accepted,
                 i |-> 1,
                 applied |-> <<>>,
                 failed |-> <<>>]
    /\ IF FirstCall(accepted, 1) = "idle"
       THEN /\ Called("applyAcceptedChanges", None, ApplyResult(<<>>, <<>>))
            /\ DrainBegin(pendingCommands, transitioned)
       ELSE /\ Called("acceptAllChanges", None, transitioned)
            /\ flow' = [pc |-> "apply",
                        commands |-> pendingCommands,
                        gating |-> transitioned]
            /\ UNCHANGED drain
    /\ UNCHANGED <<selectedChangePath, isDiffModalOpen, settings,
                   pendingCommands, nextId, fs, shell, retry, io, versions>>

\* handleAcceptAll from the click to its first await. The panel is on
\* screen when staging is enabled and there is a pending change or a queued
\* command, and its buttons are disabled while isApplying. `await
\* webcontainer` is the container that booted before anything was staged.
handleAcceptAll ==
    LET transitioned == Transitioned(changes, "accepted")
        accepted == WithStatus(ResolvedAll(changes, "accepted"), "accepted")
    IN
    /\ flow.pc = "idle"
    /\ settings.isEnabled
    /\ pendingChanges # <<>> \/ pendingCommands # <<>>
    /\ changes' = ResolvedAll(changes, "accepted")
    /\ IF isPreviewMode
       THEN /\ isPreviewMode' = FALSE
            /\ Called("acceptAllChanges", None, transitioned)
            /\ DrainBegin(pendingCommands, transitioned)
            /\ UNCHANGED apply
       ELSE /\ UNCHANGED isPreviewMode
            /\ apply' = [pc |-> FirstCall(accepted, 1),
                         accepted |-> accepted,
                         i |-> 1,
                         applied |-> <<>>,
                         failed |-> <<>>]
            /\ IF FirstCall(accepted, 1) = "idle"
               THEN /\ Called("applyAcceptedChanges", None,
                              ApplyResult(<<>>, <<>>))
                    /\ DrainBegin(pendingCommands, transitioned)
               ELSE /\ Called("acceptAllChanges", None, transitioned)
                    /\ flow' = [pc |-> "apply",
                                commands |-> pendingCommands,
                                gating |-> transitioned]
                    /\ UNCHANGED drain
    /\ UNCHANGED <<selectedChangePath, isDiffModalOpen, settings,
                   pendingCommands, nextId, fs, shell, retry, io, versions>>

\* an awaited ProjectHost call of the batch settles; when the batch returns,
\* applyChangesToWebContainer reports and executePendingCommands is called
FlowApply(A) ==
    /\ flow.pc = "apply"
    /\ A
    /\ IF apply'.pc = "idle"
       THEN DrainBegin(flow.commands, flow.gating)
       ELSE UNCHANGED <<drain, flow>>
    /\ UNCHANGED <<shell, retry, io, versions>>

\* await takeDelayedSnapshot(150) settles (a rejection is caught); finally
FlowSnapshot ==
    /\ flow.pc = "snapshot"
    /\ flow' = FlowIdle
    /\ UNCHANGED <<storeVars, nextId, fs, apply, drain, shell, retry, io,
                   last, versions>>

-----------------------------------------------------------------------------
(* The store with the Reconciler: every interleaving *)

RetryIdle == [calls |-> 0, prev |-> None, done |-> {}]

\* no revert or preview invocation is running
IoIdle ==
    [op |-> "none", pc |-> "idle", entries |-> <<>>, i |-> 0, done |-> <<>>,
     failed |-> <<>>, mkdir |-> "none"]

Init ==
    /\ changes = <<>>
    /\ selectedChangePath = None
    /\ isDiffModalOpen = FALSE
    /\ settings = DEFAULT_SETTINGS
    /\ pendingCommands = <<>>
    /\ isPreviewMode = FALSE
    /\ nextId = 1
    /\ fs = InitialFiles
    /\ apply = ApplyIdle
    /\ drain = DrainIdle
    /\ shell = ShellIdle
    /\ flow = FlowIdle
    /\ retry = RetryIdle
    /\ io = IoIdle
    /\ versions = <<>>
    /\ last = [op |-> "init", arg |-> None, ret |-> None]

\* a synchronous store call: the processes and ProjectHost stay as they are
StoreCall(A) ==
    A /\ UNCHANGED <<fs, apply, drain, shell, flow, retry, io, versions>>

\* the Change Store alone; removeChange stands for every caller of it
StoreNext ==
    \/ \E change \in StageInputs :
          nextId <= MaxIds /\ StoreCall(stageChange(change))
    \/ \E t \in TargetArgs : StoreCall(acceptChange(t) /\ UNCHANGED nextId)
    \/ \E t \in TargetArgs : StoreCall(rejectChange(t) /\ UNCHANGED nextId)
    \/ StoreCall(acceptAllChanges /\ UNCHANGED nextId)
    \/ StoreCall(rejectAllChanges /\ UNCHANGED nextId)
    \/ StoreCall(clearStaging /\ UNCHANGED nextId)
    \/ StoreCall(clearProcessedChanges /\ UNCHANGED nextId)
    \/ \E p \in Paths : StoreCall(removeChange(p) /\ UNCHANGED nextId)
    \/ \E p \in Paths : StoreCall(selectChange(Some(p)) /\ UNCHANGED nextId)
    \/ StoreCall(toggleStaging /\ UNCHANGED nextId)

Next == StoreNext

Spec == Init /\ [][Next]_vars

-----------------------------------------------------------------------------
(* Properties of the Change Store *)

\* the step is a call of op: the record of the last call is a new one
Did(op) == last'.op = op /\ (last.op = op => last' # last)

UniquePaths(chs) ==
    \A i, j \in 1..Len(chs) : i # j => chs[i].filePath # chs[j].filePath

\* the entries of chs other than the one under path, in order
Others(chs, path) == SelectSeq(chs, LAMBDA c : c.filePath # path)

\* C1: the store never holds two entries for one filePath, and a stageChange
\* that stages puts the record it returns under the path in place of whatever
\* entry was there, adding an entry only when the path had none and leaving
\* every other entry as it was.
UniqueAndReplaced ==
    [][/\ UniquePaths(changes')
       /\ (Did("stageChange") /\ last'.ret # None) =>
            LET change == last'.arg
                created == last'.ret[1]
            IN /\ Lookup(changes', change.filePath) = Some(created)
               /\ created.filePath = change.filePath
               /\ created.type = change.type
               /\ created.originalContent = change.originalContent
               /\ created.newContent = change.newContent
               /\ created.actionId = change.actionId
               /\ \A i \in 1..Len(changes) : changes[i].id # created.id
               /\ Len(changes') = IF HasKey(changes, change.filePath)
                                  THEN Len(changes) ELSE Len(changes) + 1
               /\ Others(changes', change.filePath) = Others(changes, change.filePath)
      ]_vars

\* C1 happens: the record just created stands first with another entry after
\* it, so it took the place of an earlier entry for its path.
ReplacedInPlace ==
    /\ last.op = "stageChange"
    /\ last.ret # None
    /\ Len(changes) >= 2
    /\ changes[1] = last.ret[1]

\* the entries a path-or-id argument can mean
Targets(chs, filePathOrId) ==
    {i \in 1..Len(chs) : chs[i].filePath = filePathOrId \/ chs[i].id = filePathOrId}

\* C2: an entry (the record with one id) changes status only from pending to
\* accepted or to rejected, and acceptChange / rejectChange aimed at an entry
\* that is not pending returns nothing and leaves the store as it was.
StatusOnlyLeavesPending ==
    [][/\ \A i \in 1..Len(changes), j \in 1..Len(changes') :
            (changes[i].id = changes'[j].id
             /\ changes[i].status # changes'[j].status)
            => /\ changes[i].status = "pending"
               /\ changes'[j].status \in {"accepted", "rejected"}
       /\ \A op \in {"acceptChange", "rejectChange"} :
            (/\ Did(op)
             /\ Targets(changes, last'.arg) # {}
             /\ \A i \in Targets(changes, last'.arg) : changes[i].status # "pending")
            => (last'.ret = None /\ UNCHANGED storeVars)
      ]_vars

\* C2 happens: acceptChange or rejectChange was called on an entry that had
\* already been accepted or rejected, and returned nothing.
ResolvedTwice ==
    /\ last.op \in {"acceptChange", "rejectChange"}
    /\ last.ret = None
    /\ \E i \in 1..Len(changes) :
          /\ changes[i].filePath = last.arg
          /\ changes[i].status \in {"accepted", "rejected"}

\* C10: while settings.isEnabled is false, stageChange returns nothing and
\* changes no part of the store.
DisabledStagesNothing ==
    [][(Did("stageChange") /\ ~settings.isEnabled)
       => (last'.ret = None /\ UNCHANGED storeVars)]_vars

\* C10 happens: stageChange was called with staging disabled on a store
\* that holds entries.
StagedWhileDisabled ==
    /\ last.op = "stageChange"
    /\ last.ret = None
    /\ ~settings.isEnabled
    /\ Len(changes) > 0

\* the step is a call of the bulk operation op, which gives status
BulkCall(op, status) ==
    Did(op) =>
        /\ Len(changes') = Len(changes)
        /\ \A i \in 1..Len(changes) :
              changes'[i] = IF changes[i].status = "pending"
                            THEN [changes[i] EXCEPT !.status = status]
                            ELSE changes[i]
        /\ last'.ret =
               SelectSeq(changes',
                         LAMBDA c : \E i \in 1..Len(changes) :
                                       /\ changes[i].filePath = c.filePath
                                       /\ changes[i].status = "pending")
        /\ \A i \in 1..Len(last'.ret) : last'.ret[i].status = status
        /\ (\A i \in 1..Len(changes) : changes[i].status # "pending")
               => (last'.ret = <<>> /\ UNCHANGED storeVars)

\* C13: acceptAllChanges (rejectAllChanges) gives accepted (rejected) to
\* every entry that is pending at the call and to no other, returns exactly
\* those entries, and with nothing pending returns the empty list and
\* leaves the store as it is.
BulkResolvesPending ==
    [][/\ BulkCall("acceptAllChanges", "accepted")
       /\ BulkCall("rejectAllChanges", "rejected")]_vars

\* C13 happens: rejectAllChanges has rejected a pending entry and left an
\* accepted one alone.
RejectedAllButAccepted ==
    /\ last.op = "rejectAllChanges"
    /\ Len(last.ret) >= 1
    /\ \E i \in 1..Len(changes) : changes[i].status = "accepted"
    /\ \A i \in 1..Len(last.ret) :
          Lookup(changes, last.ret[i].filePath) = Some(last.ret[i])

-----------------------------------------------------------------------------
(* The store with the Reconciler: store calls interleave with a batch at    *)
(* every await                                                              *)

\* one step of an invocation of applyAcceptedChanges
ApplyAct ==
    \/ applyAcceptedChanges
    \/ \E ok \in BOOLEAN : ApplyMkdir(ok)
    \/ \E ok \in BOOLEAN : ApplyRm(ok)
    \/ \E ok \in BOOLEAN : ApplyWriteFile(ok)

ApplyNext ==
    ApplyAct /\ UNCHANGED <<drain, shell, flow, retry, io, versions>>

ApplyStoreNext ==
    \/ \E change \in StageInputs :
          nextId <= MaxApplyIds /\ StoreCall(stageChange(change))
    \/ \E p \in Paths : StoreCall(acceptChange(p) /\ UNCHANGED nextId)
    \/ \E p \in Paths : StoreCall(rejectChange(p) /\ UNCHANGED nextId)
    \/ StoreCall(acceptAllChanges /\ UNCHANGED nextId)
    \/ StoreCall(clearStaging /\ UNCHANGED nextId)
    \/ StoreCall(toggleStaging /\ UNCHANGED nextId)

ApplySpecNext == ApplyStoreNext \/ ApplyNext

ApplySpec == Init /\ [][ApplySpecNext]_vars

-----------------------------------------------------------------------------
(* Properties of applyAcceptedChanges *)

Range(seq) == {seq[i] : i \in 1..Len(seq)}

FailedPaths(failed) == {failed[i].path : i \in 1..Len(failed)}

\* a step of the invocation, from the call to the return
ApplyStep == apply' # apply

\* the step in which the invocation returns its result
ApplyReturned == apply'.pc = "idle" /\ (ApplyStep \/ Did("applyAcceptedChanges"))

\* applied and failed name every entry of the snapshot once, and never both
Partitioned(accepted, result) ==
    /\ Len(result.applied) + Len(result.failed) = Len(accepted)
    /\ Range(result.applied) \cup FailedPaths(result.failed)
         = {accepted[i].filePath : i \in 1..Len(accepted)}
    /\ Range(result.applied) \cap FailedPaths(result.failed) = {}

\* the invocation works on the entries that are accepted when it is called
SnapshotTaken ==
    (apply.pc = "idle" /\ ApplyStep)
    => apply'.accepted = SelectSeq(changes, LAMBDA c : c.status = "accepted")

\* at the return every applied entry is out of the store
AppliedRemoved ==
    ApplyReturned =>
        /\ Partitioned(apply'.accepted, last'.ret)
        /\ \A e \in Range(apply'.accepted) :
              e.filePath \in Range(last'.ret.applied)
              => \A c \in Range(changes') : c.id # e.id

\* C3 as stated: at the return the lists partition the snapshot, every
\* applied entry is out of the store and every failed entry is in the store
\* with status accepted.
FailedStillAcceptedAtReturn ==
    [][/\ SnapshotTaken
       /\ AppliedRemoved
       /\ ApplyReturned =>
            \A e \in Range(apply'.accepted) :
               e.filePath \in FailedPaths(last'.ret.failed)
               => e \in Range(changes')
      ]_vars

\* C3 amended: at the return the lists partition the snapshot and every
\* applied entry is out of the store; the step that records a failure
\* changes neither the store nor ProjectHost, and no step of the invocation
\* removes or alters an entry it has recorded as failed (such an entry is
\* accepted in the store at the return unless another store call replaced or
\* removed it in the meantime).
FailedLeftForRetry ==
    [][/\ SnapshotTaken
       /\ AppliedRemoved
       /\ (ApplyStep /\ apply'.failed # apply.failed)
            => (changes' = changes /\ fs' = fs)
       /\ ApplyStep =>
            \A e \in Range(apply'.accepted) :
               (e.filePath \in FailedPaths(apply'.failed) /\ e \in Range(changes))
               => e \in Range(changes')
      ]_vars

\* C3 happens: a batch returned after its first entry failed and a later
\* one was applied, the failed one still accepted in the store.
AppliedPastFailure ==
    /\ last.op = "applyAcceptedChanges"
    /\ Len(last.ret.failed) >= 1
    /\ Len(last.ret.applied) >= 1
    /\ apply.accepted[1].filePath = last.ret.failed[1].path
    /\ apply.accepted[1] \in Range(changes)

-----------------------------------------------------------------------------
(* A caller that invokes applyAcceptedChanges again and again: once it has  *)
(* made its first call nothing is staged or accepted any more, other store  *)
(* calls go on                                                              *)

RetryStarted == apply.pc # "idle" \/ retry.calls > 0

\* the caller keeps the result of the call that has just returned, whether
\* it has made one call or more, and the ids of the entries applied so far
Retrying(A) ==
    /\ A
    /\ retry' = [calls |-> IF apply'.pc # "idle" THEN retry.calls
                           ELSE IF retry.calls = 0 THEN 1 ELSE 2,
                 prev |-> IF apply'.pc # "idle" THEN retry.prev
                          ELSE Some(ApplyResult(apply'.applied, apply'.failed)),
                 done |-> IF apply.pc # "idle" /\ apply'.applied # apply.applied
                          THEN retry.done \cup {apply.accepted[apply.i].id}
                          ELSE retry.done]
    /\ UNCHANGED <<drain, shell, flow, io, versions>>

RetryCall == Retrying(ApplyAct)

TwiceStoreNext ==
    \/ \E change \in StageInputs :
          /\ ~RetryStarted
          /\ nextId <= MaxApplyIds
          /\ StoreCall(stageChange(change))
    \/ \E p \in Paths :
          ~RetryStarted /\ StoreCall(acceptChange(p) /\ UNCHANGED nextId)
    \/ ~RetryStarted /\ StoreCall(acceptAllChanges /\ UNCHANGED nextId)
    \/ \E p \in Paths : StoreCall(rejectChange(p) /\ UNCHANGED nextId)
    \/ StoreCall(toggleStaging /\ UNCHANGED nextId)

TwiceNext == TwiceStoreNext \/ RetryCall

TwiceSpec == Init /\ [][TwiceNext]_vars

\* C4 as stated: a call that follows another call, nothing staged or
\* accepted since the first began, returns an empty applied list.
SecondCallAppliesNothing ==
    [][(ApplyReturned /\ retry.prev # None) => last'.ret.applied = <<>>]_vars

\* C4 amended: such a call applies only entries the call before it reported
\* as failed, none that call applied and none that was not accepted then; its
\* applied list is empty when the call before it reported no failure.
SecondCallAppliesOnlyFailed ==
    [][(ApplyReturned /\ retry.prev # None)
       => Range(last'.ret.applied) \subseteq FailedPaths(retry.prev[1].failed)]_vars

\* C4 happens: a call that followed another call has returned, and it
\* applied an entry (one the call before it had reported as failed).
SecondCallRetried ==
    /\ retry.calls = 2
    /\ apply.pc = "idle"
    /\ Len(apply.applied) >= 1

-----------------------------------------------------------------------------
(* The re-invoking caller under fairness: it calls again whenever the last  *)
(* call has returned, every awaited ProjectHost call settles, and for every *)
(* file the call that writes or removes it succeeds if it is made again and *)
(* again; staging and the other store calls go on in between                *)

\* the awaited rm or writeFile of the entry for path p succeeds
ApplySucceedsOn(p) ==
    /\ apply.pc \in {"rm", "writeFile"}
    /\ apply.accepted[apply.i].filePath = p
    /\ Retrying(ApplyRm(TRUE) \/ ApplyWriteFile(TRUE))

LiveStoreNext ==
    \/ \E change \in StageInputs :
          nextId <= MaxApplyIds /\ StoreCall(stageChange(change))
    \/ \E p \in Paths : StoreCall(acceptChange(p) /\ UNCHANGED nextId)
    \/ StoreCall(clearStaging /\ UNCHANGED nextId)

LiveNext == LiveStoreNext \/ RetryCall

LiveSpec ==
    /\ Init
    /\ [][LiveNext]_vars
    /\ WF_vars(RetryCall)
    /\ \A p \in Paths : SF_vars(ApplySucceedsOn(p))

UsedIds == {generateChangeId(n) : n \in 1..(MaxApplyIds + 1)}

AcceptedInStore(id) ==
    \E c \in Range(changes) : c.id = id /\ c.status = "accepted"

InStore(id) == \E c \in Range(changes) : c.id = id

\* the file of entry e is as the entry asks
AppliedTo(files, e) ==
    files[RelativePath(e.filePath)] = IF e.type = "delete" THEN Absent ELSE e.newContent

-----------------------------------------------------------------------------
(* The Command Queue alone: any sequence of its three operations *)

QueueNext ==
    \/ \E command \in CommandInputs :
          nextId <= MaxQueueIds /\ StoreCall(queueCommand(command))
    \/ \E n \in 1..MaxQueueIds :
          StoreCall(removePendingCommand(generateChangeId(n)) /\ UNCHANGED nextId)
    \/ StoreCall(clearPendingCommands /\ UNCHANGED nextId)

QueueSpec == Init /\ [][QueueNext]_vars

\* the queue holds a command of the type and normalized text of command
HoldsSame(queue, command) ==
    \E i \in 1..Len(queue) :
        /\ queue[i].type = command.type
        /\ NormalizedCommand(queue[i].command) = NormalizedCommand(command.command)

\* C7: after any sequence of queueCommand, removePendingCommand and
\* clearPendingCommands no two queued commands have the same type and the
\* same text after trimming and CRLF->LF normalization; a queueCommand for a
\* command the queue holds in that sense returns nothing and leaves the
\* queue as it was, and any other queueCommand (the same text under the
\* other type included) is accepted and appended.
NoDuplicateCommands ==
    /\ [](\A i, j \in 1..Len(pendingCommands) :
             i # j => ~ /\ pendingCommands[i].type = pendingCommands[j].type
                        /\ NormalizedCommand(pendingCommands[i].command) =
                               NormalizedCommand(pendingCommands[j].command))
    /\ [][Did("queueCommand") =>
             IF HoldsSame(pendingCommands, last'.arg)
             THEN /\ last'.ret = None
                  /\ pendingCommands' = pendingCommands
             ELSE /\ last'.ret # None
                  /\ last'.ret[1].type = last'.arg.type
                  /\ last'.ret[1].command = last'.arg.command
                  /\ pendingCommands' = Append(pendingCommands, last'.ret[1])]_vars

\* C7 happens: the queue holds the same text under both types, and a
\* queueCommand with that text padded by white space has just been dropped.
DroppedPaddedDuplicate ==
    /\ Len(pendingCommands) = 2
    /\ pendingCommands[1].type # pendingCommands[2].type
    /\ pendingCommands[1].command = TextA
    /\ pendingCommands[2].command = TextA
    /\ last.op = "queueCommand"
    /\ last.arg.command = TextAPadded
    /\ last.ret = None

-----------------------------------------------------------------------------
(* The Command Queue and its drain: commands are queued, removed and       *)
(* cleared at any time, Accept All drains the queue; no file is staged     *)

\* the commands queued in a run with the drain
DrainInputs ==
    [type : CommandTypes, command : {TextA, TextLF}, artifactId : ArtifactIds]

DrainStoreNext ==
    \/ \E command \in DrainInputs :
          nextId <= MaxDrainIds /\ StoreCall(queueCommand(command))
    \/ \E n \in 1..MaxDrainIds :
          StoreCall(removePendingCommand(generateChangeId(n)) /\ UNCHANGED nextId)
    \/ StoreCall(clearPendingCommands /\ UNCHANGED nextId)

DrainNext ==
    \/ handleAcceptAll
    \/ \E ok \in BOOLEAN : DrainReady(ok)
    \/ \E ok \in BOOLEAN : DrainExec(ok)
    \/ \E k \in 1..MaxDrainIds : \E ok \in BOOLEAN : StartSettles(k, ok)
    \/ FlowSnapshot

DrainSpecNext == DrainStoreNext \/ DrainNext

DrainSpec == Init /\ [][DrainSpecNext]_vars

\* what the queue or the shell log says was queued or sent: id, type, text
Sent(seq) ==
    [k \in 1..Len(seq) |->
        [id |-> seq[k].id, type |-> seq[k].type, command |-> seq[k].command]]

\* the last n entries of seq
LogTail(seq, n) == SubSeq(seq, Len(seq) - n + 1, Len(seq))

\* executePendingCommands returns after its loop
DrainReturned == drain.pc # "idle" /\ drain'.pc = "idle" /\ flow'.pc = "snapshot"

\* C8: queueCommand appends at the end; removePendingCommand takes out the
\* command of the given id and keeps the others in their order; the batch
\* drained is the queue as it stood at the click, and its commands reach the
\* shell in that order, one after the other.
QueueIsFifo ==
    /\ [][(Did("queueCommand") /\ last'.ret # None)
             => pendingCommands' = Append(pendingCommands, last'.ret[1])]_vars
    /\ [][Did("removePendingCommand") =>
             /\ Range(pendingCommands') =
                    {c \in Range(pendingCommands) : c.id # last'.arg}
             /\ \A i, j \in 1..Len(pendingCommands') :
                   i < j => \E a, b \in 1..Len(pendingCommands) :
                               /\ a < b
                               /\ pendingCommands[a] = pendingCommands'[i]
                               /\ pendingCommands[b] = pendingCommands'[j]]_vars
    /\ [][(drain.pc = "idle" /\ drain'.pc # "idle")
             => drain'.commands = pendingCommands]_vars
    /\ [](drain.pc = "exec" =>
             /\ Len(shell.log) >= drain.i
             /\ Sent(LogTail(shell.log, drain.i)) =
                    Sent(SubSeq(drain.commands, 1, drain.i)))
    /\ [][DrainReturned =>
             /\ Len(shell'.log) >= Len(drain.commands)
             /\ Sent(LogTail(shell'.log, Len(drain.commands))) =
                    Sent(drain.commands)]_vars

\* C8 happens: of three queued commands the second was removed, and the
\* drain has sent the first and the third, in that order.
DrainedAfterRemoval ==
    /\ Len(shell.log) = 2
    /\ shell.log[1].id = generateChangeId(1)
    /\ shell.log[2].id = generateChangeId(3)
    /\ pendingCommands = <<>>
    /\ last.op = "executePendingCommands"

\* C9: while the queue is drained, a shell command that fails is followed
\* by the next command of the batch, and a failing start command leaves the
\* drain as it is; no command is sent while an earlier shell command is
\* still running; the drain never waits for a start command: the command
\* after it is sent in the same step; the drain changes the queue only by
\* clearing it when it returns, with every command of the batch sent.
DrainAttemptsAll ==
    /\ [][(drain.pc = "exec" /\ drain' # drain)
             => \A k \in (drain.i + 1)..Len(drain.commands) :
                   (\A j \in (drain.i + 1)..(k - 1) : drain.commands[j].type = "start")
                   => \E n \in 1..Len(shell'.log) :
                         /\ n > Len(shell.log)
                         /\ shell'.log[n].id = drain.commands[k].id]_vars
    /\ [][(\E k \in 1..Len(shell.log) :
              /\ shell.log[k].type = "start"
              /\ shell.log[k].state = "running"
              /\ shell'.log[k].state = "failed")
             => UNCHANGED <<drain, flow, pendingCommands>>]_vars
    /\ [](\A k \in 1..Len(shell.log) :
             (shell.log[k].type = "shell" /\ shell.log[k].state = "running")
             => /\ k = Len(shell.log)
                /\ drain.pc = "exec"
                /\ drain.commands[drain.i].id = shell.log[k].id)
    /\ [](drain.pc = "exec" => drain.commands[drain.i].type = "shell")
    /\ [][(drain' # drain /\ pendingCommands' # pendingCommands)
             => /\ drain'.pc = "idle"
                /\ pendingCommands' = <<>>
                /\ Len(shell'.log) >= Len(drain.commands)
                /\ Sent(LogTail(shell'.log, Len(drain.commands))) =
                       Sent(drain.commands)]_vars

\* C9 happens: a drain has returned after a start command and a shell
\* command of its batch had failed, and a command queued after them was sent.
DrainedPastFailures ==
    /\ last.op = "executePendingCommands"
    /\ Len(shell.log) = 3
    /\ shell.log[1].type = "start"
    /\ shell.log[1].state = "failed"
    /\ shell.log[2].type = "shell"
    /\ shell.log[2].state = "failed"
    /\ pendingCommands = <<>>

-----------------------------------------------------------------------------
(* Accept All with staged files and queued commands *)

FlowStoreNext ==
    \/ \E change \in StageInputs :
          nextId <= MaxFlowIds /\ StoreCall(stageChange(change))
    \/ \E command \in DrainInputs :
          nextId <= MaxFlowIds /\ StoreCall(queueCommand(command))

FlowNext ==
    \/ handleAcceptAll
    \/ \E ok \in BOOLEAN : FlowApply(ApplyMkdir(ok))
    \/ \E ok \in BOOLEAN : FlowApply(ApplyRm(ok))
    \/ \E ok \in BOOLEAN : FlowApply(ApplyWriteFile(ok))
    \/ \E ok \in BOOLEAN : DrainReady(ok)
    \/ \E ok \in BOOLEAN : DrainExec(ok)
    \/ \E k \in 1..MaxFlowIds : \E ok \in BOOLEAN : StartSettles(k, ok)
    \/ FlowSnapshot

FlowSpecNext == FlowStoreNext \/ FlowNext

FlowSpec == Init /\ [][FlowSpecNext]_vars

\* C6: in the Accept All flow a command is sent to the shell only when the
\* batch has returned and every change the flow has accepted is on
\* ProjectHost as the change asks.
CommandsAfterGatingWrites ==
    [][Len(shell'.log) > Len(shell.log) =>
          /\ apply.pc = "idle"
          /\ \A e \in Range(flow.gating) : AppliedTo(fs, e)]_vars

\* C6's failing case: commands have been sent in a flow whose batch
\* reported a failed write.
SentAfterFailedWrite ==
    /\ flow.pc = "drain"
    /\ drain.pc = "exec"
    /\ apply.failed # <<>>
    /\ \E e \in Range(flow.gating) :
          /\ e.filePath \in FailedPaths(apply.failed)
          /\ ~AppliedTo(fs, e)

-----------------------------------------------------------------------------
(* Staging under changing settings; the caller remembers one earlier      *)
(* stageChange call: the settings it ran under, its argument, its result  *)

PatternLog == <<"*", ".", "l", "o", "g">>

PatternInputs == {PatternLog}

SettingsUpdates ==
    {[autoApproveEnabled |-> b] : b \in BOOLEAN}
    \cup {[requireDeleteConfirmation |-> b] : b \in BOOLEAN}

\* stageChange arguments for a path and a type that differ in the content
\* and in the actionId
SettingsStageInputs ==
    {[filePath |-> p,
      type |-> t,
      originalContent |-> IF t = "create" THEN Null ELSE v[1],
      newContent |-> IF t = "delete" THEN "" ELSE v[2],
      actionId |-> v[3]] :
        p \in Paths, t \in ChangeTypes,
        v \in {<<"A", "B", "action-1">>, <<"B", "C", "action-2">>}}

SettingsNext ==
    \/ \E change \in StageInputs :
          nextId <= MaxSettingsIds /\ StoreCall(stageChange(change))
    \/ \E updates \in SettingsUpdates :
          StoreCall(updateSettingsCall(updates) /\ UNCHANGED nextId)
    \/ \E pattern \in PatternInputs :
          StoreCall(addAutoApprovePattern(pattern) /\ UNCHANGED nextId)
    \/ \E pattern \in PatternInputs :
          StoreCall(removeAutoApprovePattern(pattern) /\ UNCHANGED nextId)
    \/ StoreCall(resetSettings /\ UNCHANGED nextId)
    \/ StoreCall(toggleStaging /\ UNCHANGED nextId)

SettingsSpec == Init /\ [][SettingsNext]_vars

\* C11: with staging enabled stageChange sets autoApproved to false for a
\* delete under requireDeleteConfirmation, and otherwise to
\* autoApproveEnabled and the path matching a pattern; the entry it stores
\* and returns is accepted exactly when autoApproved is true, else pending.
AutoApprovalRule ==
    [][(Did("stageChange") /\ settings.isEnabled) =>
          LET c == last'.arg
              expected ==
                  IF c.type = "delete" /\ settings.requireDeleteConfirmation
                  THEN FALSE
                  ELSE /\ settings.autoApproveEnabled
                       /\ matchesAutoApprovePattern(c.filePath,
                                                    settings.autoApprovePatterns)
          IN /\ last'.ret # None
             /\ last'.ret[1].autoApproved = expected
             /\ last'.ret[1].status = IF expected THEN "accepted" ELSE "pending"
             /\ Lookup(changes', c.filePath) = last'.ret]_vars

\* C11 happens: a delete of a.log, which matches *.log, has been staged
\* under requireDeleteConfirmation and is pending, not auto-approved.
DeleteOverridesPattern ==
    /\ last.op = "stageChange"
    /\ last.ret # None
    /\ last.arg.filePath = PathLog
    /\ last.arg.type = "delete"
    /\ settings.autoApproveEnabled
    /\ settings.requireDeleteConfirmation
    /\ matchesAutoApprovePattern(PathLog, settings.autoApprovePatterns)
    /\ last.ret[1].autoApproved = FALSE
    /\ last.ret[1].status = "pending"

-----------------------------------------------------------------------------
(* Two stageChange calls compared: the caller remembers one earlier call, *)
(* the settings it ran under, its argument and its result                 *)

\* the call is made; the caller keeps what it saw of it if it has kept
\* no call so far, or lets it pass
Remembering(change) ==
    /\ stageChange(change)
    /\ \/ UNCHANGED retry
       \/ /\ last'.ret # None
          /\ retry.prev = None
          /\ retry' = [retry EXCEPT !.prev = Some([settings |-> settings,
                                                   arg |-> change,
                                                   ret |-> last'.ret[1]])]
    /\ UNCHANGED <<fs, apply, drain, shell, flow, io, versions>>

\* the settings move one way in such a run
PairUpdates ==
    {[autoApproveEnabled |-> FALSE], [requireDeleteConfirmation |-> FALSE]}

PairNext ==
    \/ \E change \in SettingsStageInputs :
          nextId <= MaxPairIds /\ Remembering(change)
    \/ \E updates \in PairUpdates :
          StoreCall(updateSettingsCall(updates) /\ UNCHANGED nextId)
    \/ \E p \in Paths : StoreCall(acceptChange(p) /\ UNCHANGED nextId)

PairSpec == Init /\ [][PairNext]_vars

\* C12: two stageChange calls made under the same settings with the same
\* filePath and type give the same autoApproved and the same initial
\* status, whatever the store held and whatever the other fields were.
AutoApprovalDeterministic ==
    [][(/\ Did("stageChange")
        /\ last'.ret # None
        /\ retry.prev # None
        /\ retry.prev[1].settings = settings
        /\ retry.prev[1].arg.filePath = last'.arg.filePath
        /\ retry.prev[1].arg.type = last'.arg.type)
       => /\ last'.ret[1].autoApproved = retry.prev[1].ret.autoApproved
          /\ last'.ret[1].status = retry.prev[1].ret.status]_vars

\* C12 happens: the second of two such calls differs from the remembered
\* one in content and actionId and has made a new entry, pending like the
\* first.
SameVerdictTwice ==
    /\ last.op = "stageChange"
    /\ last.ret # None
    /\ retry.prev # None
    /\ retry.prev[1].settings = settings
    /\ retry.prev[1].arg.filePath = last.arg.filePath
    /\ retry.prev[1].arg.type = last.arg.type
    /\ retry.prev[1].arg.newContent # last.arg.newContent
    /\ retry.prev[1].arg.actionId # last.arg.actionId
    /\ retry.prev[1].ret.id # last.ret[1].id
    /\ last.ret[1].status = "pending"

-----------------------------------------------------------------------------
(* Reconciler: applyRejectedChanges and applyRejectedChange, one step per  *)
(* awaited ProjectHost call; the two functions share their per-entry code  *)

\* the ProjectHost call awaited first for a rejected entry, "none" when the
\* entry is reverted without any call
RevertCall(change) ==
    IF change.type = "create" THEN "none"
    ELSE IF change.type = "delete" /\ change.originalContent # Null
         THEN IF DirOf(RelativePath(change.filePath)) # <<>>
              THEN "mkdir"
              ELSE "writeFile"
    ELSE IF change.originalContent # Null THEN "writeFile"
    ELSE "none"

\* the loop of applyRejectedChanges from entry i up to its next await:
\* entries that need no call are pushed to reverted and removed on the way
RECURSIVE RevertFrom(_, _, _, _, _)
RevertFrom(chs, sel, reverted, entries, i) ==
    IF i > Len(entries)
    THEN [changes |-> chs, sel |-> sel, reverted |-> reverted, i |-> i,
          pc |-> "idle"]
    ELSE IF RevertCall(entries[i]) = "none"
         THEN RevertFrom(RemovedChanges(chs, entries[i].filePath),
                         RemovedSelection(chs, sel, entries[i].filePath),
                         Append(reverted, entries[i].filePath),
                         entries, i + 1)
         ELSE [changes |-> chs, sel |-> sel, reverted |-> reverted, i |-> i,
               pc |-> RevertCall(entries[i])]

RevertResult(reverted, failed) == [reverted |-> reverted, failed |-> failed]

\* the batch goes on from entry i with the given store and lists, or returns
RevertAdvance(chs, sel, reverted, failed, entries, i) ==
    LET r == RevertFrom(chs, sel, reverted, entries, i) IN
    /\ changes' = r.changes
    /\ selectedChangePath' = r.sel
    /\ io' = [op |-> "applyRejectedChanges", pc |-> r.pc,
              entries |-> entries, i |-> r.i, done |-> r.reverted,
              failed |-> failed, mkdir |-> "none"]
    /\ IF r.pc = "idle"
       THEN Called("applyRejectedChanges", None,
                   RevertResult(r.reverted, failed))
       ELSE UNCHANGED last
    /\ UNCHANGED <<isDiffModalOpen, settings, pendingCommands, isPreviewMode,
                   nextId>>

\* call: const rejected = getRejectedChanges(), up to the first await
applyRejectedChanges ==
    /\ io.pc = "idle"
    /\ RevertAdvance(changes, selectedChangePath, <<>>, <<>>,
                     getRejectedChanges, 1)
    /\ UNCHANGED fs

\* what applyRejectedChange returns
SingleResult(success, error) == [success |-> success, error |-> error]

\* the invocation of applyRejectedChange at its return
SingleIdle(entries, done, failed) ==
    [op |-> "applyRejectedChange", pc |-> "idle", entries |-> entries,
     i |-> Len(entries) + 1, done |-> done, failed |-> failed,
     mkdir |-> "none"]

\* applyRejectedChange that reverts the entry whatever its status
applyRejectedChangeAnyStatus(filePath) ==
    /\ io.pc = "idle"
    /\ IF ~HasKey(changes, filePath)
       THEN /\ Called("applyRejectedChange", filePath,
                      SingleResult(FALSE, "Change not found"))
            /\ io' = SingleIdle(<<>>, <<>>, <<>>)
            /\ UNCHANGED storeVars
       ELSE IF RevertCall(Lookup(changes, filePath)[1]) = "none"
       THEN /\ changes' = RemovedChanges(changes, filePath)
            /\ selectedChangePath' =
                   RemovedSelection(changes, selectedChangePath, filePath)
            /\ Called("applyRejectedChange", filePath, SingleResult(TRUE, ""))
            /\ io' = SingleIdle(<<Lookup(changes, filePath)[1]>>,
                                <<filePath>>, <<>>)
            /\ UNCHANGED <<isDiffModalOpen, settings, pendingCommands,
                           isPreviewMode>>
       ELSE /\ io' = [op |-> "applyRejectedChange",
                      pc |-> RevertCall(Lookup(changes, filePath)[1]),
                      entries |-> <<Lookup(changes, filePath)[1]>>,
                      i |-> 1, done |-> <<>>, failed |-> <<>>,
                      mkdir |-> "none"]
            /\ UNCHANGED <<storeVars, last>>
    /\ UNCHANGED <<nextId, fs>>

\* call of applyRejectedChange, up to the first await
applyRejectedChange(filePath) ==
    /\ io.pc = "idle"
    /\ IF ~HasKey(changes, filePath)
       THEN /\ Called("applyRejectedChange", filePath,
                      SingleResult(FALSE, "Change not found"))
            /\ io' = SingleIdle(<<>>, <<>>, <<>>)
            /\ UNCHANGED storeVars
       ELSE IF Lookup(changes, filePath)[1].status # "rejected"
       THEN /\ Called("applyRejectedChange", filePath,
                      SingleResult(FALSE, "Change is not rejected"))
            /\ io' = SingleIdle(<<>>, <<>>, <<>>)
            /\ UNCHANGED storeVars
       ELSE IF RevertCall(Lookup(changes, filePath)[1]) = "none"
       THEN /\ changes' = RemovedChanges(changes, filePath)
            /\ selectedChangePath' =
                   RemovedSelection(changes, selectedChangePath, filePath)
            /\ Called("applyRejectedChange", filePath, SingleResult(TRUE, ""))
            /\ io' = SingleIdle(<<Lookup(changes, filePath)[1]>>,
                                <<filePath>>, <<>>)
            /\ UNCHANGED <<isDiffModalOpen, settings, pendingCommands,
                           isPreviewMode>>
       ELSE /\ io' = [op |-> "applyRejectedChange",
                      pc |-> RevertCall(Lookup(changes, filePath)[1]),
                      entries |-> <<Lookup(changes, filePath)[1]>>,
                      i |-> 1, done |-> <<>>, failed |-> <<>>,
                      mkdir |-> "none"]
            /\ UNCHANGED <<storeVars, last>>
    /\ UNCHANGED <<nextId, fs>>

RevertOps == {"applyRejectedChanges", "applyRejectedChange"}

\* RevertMkdir in which a failed mkdir makes the entry fail
RevertMkdirFails(ok) ==
    /\ io.op \in RevertOps
    /\ io.pc = "mkdir"
    /\ IF ok
       THEN /\ io' = [io EXCEPT !.pc = "writeFile", !.mkdir = "ok"]
            /\ UNCHANGED <<storeVars, last>>
       ELSE IF io.op = "applyRejectedChanges"
            THEN RevertAdvance(changes, selectedChangePath, io.done,
                               Append(io.failed,
                                      [path |-> io.entries[io.i].filePath,
                                       error |-> "Error"]),
                               io.entries, io.i + 1)
            ELSE /\ io' = SingleIdle(io.entries, <<>>,
                                      <<[path |-> io.entries[1].filePath,
                                         error |-> "Error"]>>)
                 /\ Called("applyRejectedChange", io.entries[1].filePath,
                           SingleResult(FALSE, "Error"))
                 /\ UNCHANGED storeVars
    /\ UNCHANGED <<nextId, fs>>

\* mkdir settles: a failure is swallowed, the write is awaited next; the
\* outcome is kept in io.mkdir for the properties only
RevertMkdir(ok) ==
    /\ io.op \in RevertOps
    /\ io.pc = "mkdir"
    /\ io' = [io EXCEPT !.pc = "writeFile",
                        !.mkdir = IF ok THEN "ok" ELSE "failed"]
    /\ UNCHANGED <<storeVars, nextId, fs, last>>

\* RevertWriteFile that removes the entry whether the write failed or not
RevertWriteFileRemoves(ok) ==
    LET change == io.entries[io.i] IN
    /\ io.op \in RevertOps
    /\ io.pc = "writeFile"
    /\ fs' = IF ok
             THEN [fs EXCEPT ![RelativePath(change.filePath)] =
                                 change.originalContent]
             ELSE fs
    /\ IF io.op = "applyRejectedChanges"
       THEN RevertAdvance(RemovedChanges(changes, change.filePath),
                          RemovedSelection(changes, selectedChangePath,
                                           change.filePath),
                          IF ok THEN Append(io.done, change.filePath)
                          ELSE io.done,
                          IF ok THEN io.failed
                          ELSE Append(io.failed, [path |-> change.filePath,
                                                  error |-> "Error"]),
                          io.entries, io.i + 1)
       ELSE /\ io' = IF ok
                     THEN SingleIdle(io.entries, <<change.filePath>>, <<>>)
                     ELSE SingleIdle(io.entries, <<>>,
                                     <<[path |-> change.filePath,
                                        error |-> "Error"]>>)
            /\ changes' = RemovedChanges(changes, change.filePath)
            /\ selectedChangePath' =
                   RemovedSelection(changes, selectedChangePath,
                                    change.filePath)
            /\ Called("applyRejectedChange", change.filePath,
                      IF ok THEN SingleResult(TRUE, "")
                      ELSE SingleResult(FALSE, "Error"))
            /\ UNCHANGED <<isDiffModalOpen, settings, pendingCommands,
                           isPreviewMode>>
    /\ UNCHANGED nextId

\* writeFile settles: on success the entry is reported and removed, on
\* failure it is reported as failed and left in the store
RevertWriteFile(ok) ==
    LET change == io.entries[io.i] IN
    /\ io.op \in RevertOps
    /\ io.pc = "writeFile"
    /\ IF ok
       THEN /\ fs' = [fs EXCEPT ![RelativePath(change.filePath)] =
                                     change.originalContent]
            /\ IF io.op = "applyRejectedChanges"
               THEN RevertAdvance(RemovedChanges(changes, change.filePath),
                                  RemovedSelection(changes, selectedChangePath,
                                                   change.filePath),
                                  Append(io.done, change.filePath), io.failed,
                                  io.entries, io.i + 1)
               ELSE /\ io' = SingleIdle(io.entries, <<change.filePath>>,
                                         <<>>)
                    /\ changes' = RemovedChanges(changes, change.filePath)
                    /\ selectedChangePath' =
                           RemovedSelection(changes, selectedChangePath,
                                            change.filePath)
                    /\ Called("applyRejectedChange", change.filePath,
                              SingleResult(TRUE, ""))
                    /\ UNCHANGED <<isDiffModalOpen, settings, pendingCommands,
                                   isPreviewMode>>
       ELSE /\ UNCHANGED fs
            /\ IF io.op = "applyRejectedChanges"
               THEN RevertAdvance(changes, selectedChangePath, io.done,
                                  Append(io.failed,
                                         [path |-> change.filePath,
                                          error |-> "Error"]),
                                  io.entries, io.i + 1)
               ELSE /\ io' = SingleIdle(io.entries, <<>>,
                                         <<[path |-> change.filePath,
                                            error |-> "Error"]>>)
                    /\ Called("applyRejectedChange", change.filePath,
                              SingleResult(FALSE, "Error"))
                    /\ UNCHANGED storeVars
    /\ UNCHANGED nextId

RevertAct ==
    \/ applyRejectedChanges
    \/ \E p \in Paths : applyRejectedChange(p)
    \/ \E ok \in BOOLEAN : RevertMkdir(ok)
    \/ \E ok \in BOOLEAN : RevertWriteFile(ok)

RevertNext ==
    RevertAct /\ UNCHANGED <<apply, drain, shell, flow, retry, versions>>

RevertStoreNext ==
    \/ \E change \in StageInputs :
          nextId <= MaxRevertIds /\ StoreCall(stageChange(change))
    \/ \E p \in Paths : StoreCall(acceptChange(p) /\ UNCHANGED nextId)
    \/ \E p \in Paths : StoreCall(rejectChange(p) /\ UNCHANGED nextId)

RevertSpecNext == RevertStoreNext \/ RevertNext \/ ApplyNext

RevertSpec == Init /\ [][RevertSpecNext]_vars

-----------------------------------------------------------------------------
(* Properties of the Reconciler's three operations *)

\* a step of applyRejectedChanges or applyRejectedChange
RevertStep == io' # io

\* the record the catch block pushes for an entry
FailedRecord(change) == [path |-> change.filePath, error |-> "Error"]

\* what applyAcceptedChanges leaves in ProjectHost for an entry
AppliedContent(change) ==
    IF change.type = "delete" THEN Absent ELSE change.newContent

\* the settled rm / writeFile of applyAcceptedChanges is recorded in exactly
\* one of the two lists, in applied only with its effect on ProjectHost
ApplyOutcomeRecorded ==
    (apply.pc \in {"rm", "writeFile"} /\ ApplyStep) =>
        LET e == apply.accepted[apply.i] IN
        \/ /\ apply'.applied = Append(apply.applied, e.filePath)
           /\ apply'.failed = apply.failed
           /\ fs'[RelativePath(e.filePath)] = AppliedContent(e)
        \/ /\ apply'.failed = Append(apply.failed, FailedRecord(e))
           /\ apply'.applied = apply.applied
           /\ fs' = fs

\* the settled writeFile of a revert is recorded as reverted, with its effect
\* on ProjectHost, or as failed with the error
RevertOutcomeRecorded ==
    (io.op \in RevertOps /\ io.pc = "writeFile" /\ RevertStep) =>
        LET e == io.entries[io.i] IN
        \/ /\ e.filePath \in Range(io'.done)
           /\ io'.failed = io.failed
           /\ fs'[RelativePath(e.filePath)] = e.originalContent
        \/ /\ io'.failed = Append(io.failed, FailedRecord(e))
           /\ e.filePath \notin Range(io'.done)
           /\ fs' = fs

\* a settled mkdir, failed or not, is followed by the write of the same entry
MkdirNeverFails ==
    /\ (apply.pc = "mkdir" /\ ApplyStep)
         => apply' = [apply EXCEPT !.pc = "writeFile"]
    /\ (io.op \in RevertOps /\ io.pc = "mkdir" /\ RevertStep)
         => /\ io'.pc = "writeFile"
            /\ io'.i = io.i
            /\ io'.done = io.done
            /\ io'.failed = io.failed

\* every return of the three operations carries a result, and the result of
\* a revert says what the invocation recorded
ReturnsResult ==
    /\ last.op = "applyAcceptedChanges" =>
          DOMAIN last.ret = {"applied", "failed"}
    /\ (last.op = "applyRejectedChanges" /\ io.op = "applyRejectedChanges"
        /\ io.pc = "idle") =>
          last.ret = RevertResult(io.done, io.failed)
    /\ (last.op = "applyRejectedChange" /\ io.op = "applyRejectedChange"
        /\ io.pc = "idle") =>
          /\ DOMAIN last.ret = {"success", "error"}
          /\ last.ret.success = (io.done # <<>>)
          /\ io.failed # <<>> => last.ret.error = io.failed[1].error

\* C14: applyAcceptedChanges, applyRejectedChanges and applyRejectedChange
\* never end in an exception: each returns a result, a writeFile or rm that
\* fails is recorded in the failed list (success false with the error for
\* applyRejectedChange) and changes nothing else, and a mkdir that fails is
\* followed by the write of the same entry, which alone decides the outcome.
FailuresAreReported ==
    /\ []ReturnsResult
    /\ [][ApplyOutcomeRecorded /\ RevertOutcomeRecorded /\ MkdirNeverFails]_vars

\* C14 happens: one entry of an applyAcceptedChanges batch is recorded as
\* failed, and a revert awaits the write of an entry whose mkdir failed.
WriteAttemptedAfterFailedMkdir ==
    /\ apply.failed # <<>>
    /\ io.pc = "writeFile"
    /\ io.mkdir = "failed"

\* an awaited call of a revert belongs to a rejected delete or modify entry
\* with original content: mkdir only for a delete, and the write of a delete
\* below a directory only after its mkdir has settled
RevertCallsByType ==
    (io.op \in RevertOps /\ io.pc \in {"mkdir", "writeFile"}) =>
        LET e == io.entries[io.i] IN
        /\ e.status = "rejected"
        /\ e.type \in {"delete", "modify"}
        /\ e.originalContent # Null
        /\ io.pc = "mkdir" => e.type = "delete"
        /\ io.pc = "writeFile" =>
              ((io.mkdir # "none")
                 = (e.type = "delete" /\ DirOf(RelativePath(e.filePath)) # <<>>))

\* a revert changes ProjectHost only when a writeFile settles, and then only
\* the entry's file, to its originalContent
RevertWritesOriginal ==
    (io'.op \in RevertOps /\ RevertStep) =>
        \/ fs' = fs
        \/ /\ io.pc = "writeFile"
           /\ fs' = [fs EXCEPT ![RelativePath(io.entries[io.i].filePath)] =
                                   io.entries[io.i].originalContent]

\* the entries a revert step passes without awaiting a call
Passed ==
    {k \in 1..Len(io'.entries) :
        /\ k < io'.i
        /\ IF io.pc = "idle" THEN TRUE ELSE k > io.i}

\* applyRejectedChanges works on the entries rejected at the call, and the
\* entries it passes without a call are create entries (or have no original
\* content), reported as reverted and gone from the store
RevertPassesCreate ==
    (io'.op \in RevertOps /\ RevertStep) =>
        /\ io.pc = "idle" /\ io'.op = "applyRejectedChanges"
             => io'.entries = getRejectedChanges
        /\ io.pc # "idle" => io'.entries = io.entries
        /\ io'.pc # "idle" /\ io.pc # "mkdir"
             => RevertCall(io'.entries[io'.i]) = io'.pc
        /\ io'.pc = "idle" => io'.i = Len(io'.entries) + 1
        /\ \A k \in Passed :
              /\ RevertCall(io'.entries[k]) = "none"
              /\ io'.entries[k].type = "create"
                   \/ io'.entries[k].originalContent = Null
              /\ io'.entries[k].filePath \in Range(io'.done)
              /\ ~HasKey(changes', io'.entries[k].filePath)

\* when a write settles, a reverted entry is gone from the store and a failed
\* one is left as it is
RevertRemovesOnSuccess ==
    (io.op \in RevertOps /\ io.pc = "writeFile" /\ RevertStep) =>
        LET e == io.entries[io.i] IN
        /\ e.filePath \in Range(io'.done) => ~HasKey(changes', e.filePath)
        /\ e.filePath \in FailedPaths(io'.failed) =>
              /\ Lookup(changes', e.filePath) = Lookup(changes, e.filePath)
              /\ e \in Range(changes) =>
                    /\ e \in Range(changes')
                    /\ Lookup(changes', e.filePath)[1].status = "rejected"

\* C15: for each rejected entry applyRejectedChanges / applyRejectedChange
\* makes no ProjectHost call when the type is create, awaits mkdir of the
\* parent directories and then writes originalContent when the type is delete
\* with non-null originalContent, and writes originalContent when the type is
\* modify with non-null originalContent; when the write succeeds the store
\* holds no entry for the path, and when it fails the entry stays in the
\* store, rejected, as it was.
RevertByType ==
    /\ []RevertCallsByType
    /\ [][/\ RevertWritesOriginal
          /\ RevertPassesCreate
          /\ RevertRemovesOnSuccess]_vars

\* C15 happens: applyRejectedChanges returned after it passed a create entry
\* without a call, and the write for another entry failed, which is still
\* rejected in the store.
RevertedCreateAndFailedWrite ==
    /\ last.op = "applyRejectedChanges"
    /\ io.op = "applyRejectedChanges"
    /\ io.pc = "idle"
    /\ \E j, k \in 1..Len(io.entries) :
          /\ io.entries[j].type = "create"
          /\ io.entries[j].filePath \in Range(io.done)
          /\ io.entries[k].filePath \in FailedPaths(io.failed)
          /\ io.entries[k] \in Range(changes)

-----------------------------------------------------------------------------
(* Preview Overlay Controller: enterPreviewMode and exitPreviewMode, one   *)
(* step per awaited ProjectHost call, and the panel's toggle               *)

PreviewResult(done, failed) == [done |-> done, failed |-> failed]

\* the invocation of enterPreviewMode / exitPreviewMode at entry i
PreviewAt(op, pc, entries, i, done, failed) ==
    [op |-> op, pc |-> pc, entries |-> entries, i |-> i, done |-> done,
     failed |-> failed, mkdir |-> "none"]

\* enterPreviewMode moves to entry i, or turns the mode on and returns
EnterAdvance(entries, i, applied, failed) ==
    /\ io' = PreviewAt("enterPreviewMode", FirstCall(entries, i), entries, i,
                       applied, failed)
    /\ IF FirstCall(entries, i) = "idle"
       THEN /\ isPreviewMode' = TRUE
            /\ Called("enterPreviewMode", None, PreviewResult(applied, failed))
       ELSE UNCHANGED <<isPreviewMode, last>>
    /\ UNCHANGED <<changes, selectedChangePath, isDiffModalOpen, settings,
                   pendingCommands, nextId>>

\* enterPreviewMode that materializes every entry of the store
enterPreviewModeAll ==
    /\ io.pc = "idle"
    /\ IF isPreviewMode
       THEN /\ Called("enterPreviewMode", None, PreviewResult(<<>>, <<>>))
            /\ io' = PreviewAt("enterPreviewMode", "idle", <<>>, 1, <<>>, <<>>)
            /\ UNCHANGED <<storeVars, nextId>>
       ELSE EnterAdvance(changes, 1, <<>>, <<>>)
    /\ UNCHANGED fs

\* call of enterPreviewMode, up to the first await: nothing is done when the
\* mode is already on, else the entries pending now are materialized
enterPreviewMode ==
    /\ io.pc = "idle"
    /\ IF isPreviewMode
       THEN /\ Called("enterPreviewMode", None, PreviewResult(<<>>, <<>>))
            /\ io' = PreviewAt("enterPreviewMode", "idle", <<>>, 1, <<>>, <<>>)
            /\ UNCHANGED <<storeVars, nextId>>
       ELSE EnterAdvance(pendingChanges, 1, <<>>, <<>>)
    /\ UNCHANGED fs

\* mkdir settles: a failure is tolerated, the write is awaited next
EnterMkdir(ok) ==
    /\ io.op = "enterPreviewMode"
    /\ io.pc = "mkdir"
    /\ io' = [io EXCEPT !.pc = "writeFile",
                        !.mkdir = IF ok THEN "ok" ELSE "failed"]
    /\ UNCHANGED <<storeVars, nextId, fs, last>>

\* the awaited rm or writeFile of enterPreviewMode settles
EnterSettles(pc, content, ok) ==
    LET change == io.entries[io.i] IN
    /\ io.op = "enterPreviewMode"
    /\ io.pc = pc
    /\ IF ok
       THEN /\ fs' = [fs EXCEPT ![RelativePath(change.filePath)] = content]
            /\ EnterAdvance(io.entries, io.i + 1,
                            Append(io.done, change.filePath), io.failed)
       ELSE /\ UNCHANGED fs
            /\ EnterAdvance(io.entries, io.i + 1, io.done,
                            Append(io.failed, [path |-> change.filePath,
                                               error |-> "Error"]))

EnterRm(ok) == EnterSettles("rm", Absent, ok)

EnterWriteFile(ok) ==
    EnterSettles("writeFile",
                 IF io.pc = "writeFile" THEN io.entries[io.i].newContent
                 ELSE Absent,
                 ok)

\* ExitCall that leaves a materialized create where it is
ExitCallKeeps(change) == RevertCall(change)

\* the ProjectHost call exitPreviewMode awaits first for a pending entry:
\* a materialized create is removed, a modify / delete is restored as a
\* reject restores it
ExitCall(change) ==
    IF change.type = "create" THEN "rm" ELSE RevertCall(change)

\* the loop of exitPreviewMode from entry i up to its next await
RECURSIVE ExitFrom(_, _, _)
ExitFrom(reverted, entries, i) ==
    IF i > Len(entries)
    THEN [reverted |-> reverted, i |-> i, pc |-> "idle"]
    ELSE IF ExitCall(entries[i]) = "none"
         THEN ExitFrom(Append(reverted, entries[i].filePath), entries, i + 1)
         ELSE [reverted |-> reverted, i |-> i, pc |-> ExitCall(entries[i])]

\* exitPreviewMode goes on from entry i, or turns the mode off and returns
ExitAdvance(entries, i, reverted, failed) ==
    LET r == ExitFrom(reverted, entries, i) IN
    /\ io' = PreviewAt("exitPreviewMode", r.pc, entries, r.i, r.reverted,
                       failed)
    /\ IF r.pc = "idle"
       THEN /\ isPreviewMode' = FALSE
            /\ Called("exitPreviewMode", None,
                      PreviewResult(r.reverted, failed))
       ELSE UNCHANGED <<isPreviewMode, last>>
    /\ UNCHANGED <<changes, selectedChangePath, isDiffModalOpen, settings,
                   pendingCommands, nextId>>

\* exitPreviewMode that restores whether the mode is on or not
exitPreviewModeAlways ==
    /\ io.pc = "idle"
    /\ ExitAdvance(pendingChanges, 1, <<>>, <<>>)
    /\ UNCHANGED fs

\* call of exitPreviewMode, up to the first await: nothing is done when the
\* mode is off, else the entries pending now are restored
exitPreviewMode ==
    /\ io.pc = "idle"
    /\ IF ~isPreviewMode
       THEN /\ Called("exitPreviewMode", None, PreviewResult(<<>>, <<>>))
            /\ io' = PreviewAt("exitPreviewMode", "idle", <<>>, 1, <<>>, <<>>)
            /\ UNCHANGED <<storeVars, nextId>>
       ELSE ExitAdvance(pendingChanges, 1, <<>>, <<>>)
    /\ UNCHANGED fs

\* mkdir settles: a failure is tolerated, the write is awaited next
ExitMkdir(ok) ==
    /\ io.op = "exitPreviewMode"
    /\ io.pc = "mkdir"
    /\ io' = [io EXCEPT !.pc = "writeFile",
                        !.mkdir = IF ok THEN "ok" ELSE "failed"]
    /\ UNCHANGED <<storeVars, nextId, fs, last>>

\* the awaited rm or writeFile of exitPreviewMode settles
ExitSettles(pc, content, ok) ==
    LET change == io.entries[io.i] IN
    /\ io.op = "exitPreviewMode"
    /\ io.pc = pc
    /\ IF ok
       THEN /\ fs' = [fs EXCEPT ![RelativePath(change.filePath)] = content]
            /\ ExitAdvance(io.entries, io.i + 1,
                           Append(io.done, change.filePath), io.failed)
       ELSE /\ UNCHANGED fs
            /\ ExitAdvance(io.entries, io.i + 1, io.done,
                           Append(io.failed, [path |-> change.filePath,
                                              error |-> "Error"]))

ExitRm(ok) == ExitSettles("rm", Absent, ok)

ExitWriteFile(ok) ==
    ExitSettles("writeFile",
                IF io.pc = "writeFile" THEN io.entries[io.i].originalContent
                ELSE Absent,
                ok)

\* the panel is rendered
PanelShown ==
    settings.isEnabled /\ (pendingChanges # <<>> \/ pendingCommands # <<>>)

\* isApplying while handleTogglePreviewMode awaits
FlowToggle == [pc |-> "toggle", commands |-> <<>>, gating |-> <<>>]

\* handleTogglePreviewMode, up to its first await: exitPreviewMode when the
\* mode is on, enterPreviewMode when it is off
handleTogglePreviewMode ==
    /\ flow.pc = "idle"
    /\ PanelShown
    /\ IF isPreviewMode THEN exitPreviewMode ELSE enterPreviewMode
    /\ flow' = IF io'.pc = "idle" THEN FlowIdle ELSE FlowToggle
    /\ UNCHANGED <<apply, drain, shell>>

\* an awaited ProjectHost call of enterPreviewMode / exitPreviewMode settles;
\* when the invocation was made by the panel and returns, setIsApplying(false)
PreviewSettles(A) ==
    /\ A
    /\ flow' = IF flow.pc = "toggle" /\ io'.pc = "idle" THEN FlowIdle ELSE flow
    /\ UNCHANGED <<apply, drain, shell>>

\* what is staged for path p of the project as it is now: a create for a
\* file that does not exist, else a modify or a delete of its content
PreviewInputs ==
    {[filePath |-> p, type |-> "create", originalContent |-> Null,
      newContent |-> "B", actionId |-> "action-1"] :
        p \in {q \in Paths : fs[RelativePath(q)] = Absent}}
    \cup
    {[filePath |-> p, type |-> "modify",
      originalContent |-> fs[RelativePath(p)],
      newContent |-> "B", actionId |-> "action-1"] :
        p \in {q \in Paths : fs[RelativePath(q)] # Absent}}
    \cup
    {[filePath |-> p, type |-> "delete",
      originalContent |-> fs[RelativePath(p)],
      newContent |-> "", actionId |-> "action-1"] :
        p \in {q \in Paths : fs[RelativePath(q)] # Absent}}

\* the project and the store as they are when enterPreviewMode is called
\* with the mode off, kept for the properties only
Remembered(A) ==
    /\ A
    /\ retry' = IF io.pc = "idle" /\ io'.op = "enterPreviewMode"
                   /\ ~isPreviewMode
                THEN [retry EXCEPT
                        !.prev = Some([fs |-> fs, changes |-> changes])]
                ELSE retry
    /\ UNCHANGED versions

PreviewStoreNext ==
    \/ \E change \in PreviewInputs :
          nextId <= MaxPreviewIds /\ StoreCall(stageChange(change))
    \/ \E p \in Paths : StoreCall(rejectChange(p) /\ UNCHANGED nextId)

PreviewNext ==
    \/ Remembered(handleTogglePreviewMode)
    \/ Remembered(PreviewSettles(enterPreviewMode))
    \/ Remembered(PreviewSettles(exitPreviewMode))
    \/ \E ok \in BOOLEAN : Remembered(PreviewSettles(EnterMkdir(ok)))
    \/ \E ok \in BOOLEAN : Remembered(PreviewSettles(EnterRm(ok)))
    \/ \E ok \in BOOLEAN : Remembered(PreviewSettles(EnterWriteFile(ok)))
    \/ \E ok \in BOOLEAN : Remembered(PreviewSettles(ExitMkdir(ok)))
    \/ \E ok \in BOOLEAN : Remembered(PreviewSettles(ExitRm(ok)))
    \/ \E ok \in BOOLEAN : Remembered(PreviewSettles(ExitWriteFile(ok)))

PreviewFlowNext ==
    \/ handleAcceptAll
    \/ \E ok \in BOOLEAN : FlowApply(ApplyMkdir(ok))
    \/ \E ok \in BOOLEAN : FlowApply(ApplyRm(ok))
    \/ \E ok \in BOOLEAN : FlowApply(ApplyWriteFile(ok))
    \/ FlowSnapshot

PreviewSpecNext == PreviewStoreNext \/ PreviewNext \/ PreviewFlowNext

PreviewSpec == Init /\ [][PreviewSpecNext]_vars

-----------------------------------------------------------------------------
(* Properties of preview mode *)

PreviewOps == {"enterPreviewMode", "exitPreviewMode"}

\* a step of enterPreviewMode or exitPreviewMode
PreviewStep == io'.op \in PreviewOps /\ io' # io

\* the step in which exitPreviewMode returns after restoring
ExitReturned ==
    /\ io'.op = "exitPreviewMode"
    /\ io'.pc = "idle"
    /\ isPreviewMode
    /\ ~isPreviewMode'

\* no step of enterPreviewMode / exitPreviewMode changes an entry, the
\* selection, the settings or the queue
PreviewKeepsStore ==
    PreviewStep =>
        UNCHANGED <<changes, selectedChangePath, isDiffModalOpen, settings,
                    pendingCommands>>

\* what ProjectHost holds for an entry's file before the change is made
Before(change) ==
    IF change.type = "create" THEN Absent ELSE change.originalContent

\* the pending entries describe the project as it was when enterPreviewMode
\* was called
EnteredFromOriginal ==
    \A e \in Range(retry.prev[1].changes) :
       e.status = "pending" =>
          retry.prev[1].fs[RelativePath(e.filePath)] = Before(e)

\* C16: when exitPreviewMode returns without a failure and the entries of
\* the store are those of the moment enterPreviewMode was called (nothing
\* staged, accepted or rejected in between), every pending path holds on
\* ProjectHost what it held before the entry (a modify / delete file its
\* originalContent, a create file nothing), the mode is off, and no step of
\* the two operations has touched an entry, so each is still pending.
PreviewRoundTrip ==
    [][/\ PreviewKeepsStore
       /\ (/\ ExitReturned
           /\ io'.failed = <<>>
           /\ retry.prev # None
           /\ changes' = retry.prev[1].changes
           /\ EnteredFromOriginal)
            => \A e \in Range(changes') :
                  e.status = "pending" =>
                     fs'[RelativePath(e.filePath)]
                       = retry.prev[1].fs[RelativePath(e.filePath)]
      ]_vars

\* C16 happens: preview mode was entered with a pending create and left
\* again, the store is as it was at the entry, the file is gone and the entry
\* is pending.
CreateGoneAfterRoundTrip ==
    /\ last.op = "exitPreviewMode"
    /\ io.op = "exitPreviewMode"
    /\ io.pc = "idle"
    /\ io.failed = <<>>
    /\ ~isPreviewMode
    /\ retry.prev # None
    /\ changes = retry.prev[1].changes
    /\ \E e \in Range(changes) :
          /\ e.type = "create"
          /\ e.status = "pending"
          /\ e.filePath \in Range(io.done)
          /\ retry.prev[1].fs[RelativePath(e.filePath)] = Absent
          /\ fs[RelativePath(e.filePath)] = Absent

\* a step of enterPreviewMode made with the mode off
EnterStep ==
    /\ io'.op = "enterPreviewMode"
    /\ ~isPreviewMode
    /\ io' # io \/ isPreviewMode'

\* the entries enterPreviewMode works on are those pending at its call
EnterTakesPending ==
    (EnterStep /\ io.pc = "idle") => io'.entries = pendingChanges

\* enterPreviewMode changes ProjectHost only when the rm or writeFile of one
\* of its entries settles, and then as accepting the entry would
EnterWritesNewContent ==
    (EnterStep /\ fs' # fs) =>
        /\ io.pc \in {"rm", "writeFile"}
        /\ io.entries[io.i].status = "pending"
        /\ io.entries[io.i].filePath \in Range(io'.done)
        /\ fs' = [fs EXCEPT ![RelativePath(io.entries[io.i].filePath)] =
                                AppliedContent(io.entries[io.i])]

\* the mode is turned on when enterPreviewMode returns, every entry then
\* recorded as applied or as failed
EnterTurnsOn ==
    EnterStep =>
        /\ isPreviewMode' = (io'.pc = "idle")
        /\ io'.pc = "idle" =>
              /\ Len(io'.done) + Len(io'.failed) = Len(io'.entries)
              /\ Range(io'.done) \cup FailedPaths(io'.failed)
                   = {io'.entries[k].filePath : k \in 1..Len(io'.entries)}
              /\ last'.ret = PreviewResult(io'.done, io'.failed)

\* C17: enterPreviewMode works on the entries that are pending when it is
\* called, writes each one's newContent to ProjectHost (removes the file of a
\* delete) and nothing else, turns isPreviewMode on when it returns, and
\* changes no entry's status and adds or removes no entry.
EnterMaterializesPending ==
    [][/\ EnterStep => UNCHANGED <<changes, selectedChangePath,
                                   isDiffModalOpen, settings, pendingCommands>>
       /\ EnterTakesPending
       /\ EnterWritesNewContent
       /\ EnterTurnsOn]_vars

\* C17 happens: enterPreviewMode returned with the mode on, a pending entry
\* is on ProjectHost and still pending, and an entry that is not pending was
\* left unwritten.
PendingWrittenOthersNot ==
    /\ last.op = "enterPreviewMode"
    /\ io.op = "enterPreviewMode"
    /\ io.pc = "idle"
    /\ isPreviewMode
    /\ \E e, x \in Range(changes) :
          /\ e.status = "pending"
          /\ e \in Range(io.entries)
          /\ e.filePath \in Range(io.done)
          /\ fs[RelativePath(e.filePath)] = e.newContent
          /\ x.status # "pending"
          /\ x \notin Range(io.entries)
          /\ fs[RelativePath(x.filePath)] # AppliedContent(x)

\* enterPreviewMode is called while the mode is on
EnterAgain ==
    /\ io.pc = "idle"
    /\ isPreviewMode
    /\ io'.op = "enterPreviewMode"
    /\ io' # io \/ Did("enterPreviewMode")

\* exitPreviewMode is called while the mode is off
ExitAgain ==
    /\ io.pc = "idle"
    /\ ~isPreviewMode
    /\ io'.op = "exitPreviewMode"
    /\ io' # io \/ Did("exitPreviewMode")

\* the steps that turn the mode on and off
ModeSwitches ==
    /\ (~isPreviewMode /\ isPreviewMode') =>
          (io'.op = "enterPreviewMode" /\ io'.pc = "idle")
    /\ (isPreviewMode /\ ~isPreviewMode') =>
          \/ io'.op = "exitPreviewMode" /\ io'.pc = "idle" /\ io' # io
          \/ flow.pc = "idle" /\ flow'.pc \in {"drain", "snapshot"}

\* C18: enterPreviewMode called while the mode is on starts no ProjectHost
\* call and changes neither the store nor ProjectHost, exitPreviewMode
\* called while the mode is off does the same, and the mode goes on only at
\* the return of enterPreviewMode and off only at the return of
\* exitPreviewMode or in Accept All.
PreviewModeTwoState ==
    [][/\ (EnterAgain \/ ExitAgain) =>
             /\ io'.pc = "idle"
             /\ io'.entries = <<>>
             /\ last'.ret = PreviewResult(<<>>, <<>>)
             /\ UNCHANGED <<storeVars, fs>>
       /\ ModeSwitches]_vars

\* C18 happens: with the mode on and the entries that were materialized
\* still pending, enterPreviewMode was called again and did nothing.
EnteredTwice ==
    /\ last.op = "enterPreviewMode"
    /\ last.ret = PreviewResult(<<>>, <<>>)
    /\ io.op = "enterPreviewMode"
    /\ io.pc = "idle"
    /\ io.entries = <<>>
    /\ isPreviewMode
    /\ retry.prev # None
    /\ retry.prev[1].changes = changes
    /\ pendingChanges # <<>>

\* handleAcceptAll is invoked while the mode is on
AcceptAllInPreview ==
    /\ flow.pc = "idle"
    /\ isPreviewMode
    /\ flow'.pc \in {"apply", "drain", "snapshot"}

\* C19: when Accept All is invoked while isPreviewMode is true, no batch of
\* ProjectHost writes is started and ProjectHost is unchanged, every pending
\* entry becomes accepted, no other entry changes, and isPreviewMode becomes
\* false.
AcceptAllSkipsWritesInPreview ==
    [][AcceptAllInPreview =>
          /\ fs' = fs
          /\ apply' = apply
          /\ apply.pc = "idle"
          /\ flow'.pc # "apply"
          /\ ~isPreviewMode'
          /\ Len(changes') = Len(changes)
          /\ \A k \in 1..Len(changes) :
                changes'[k] = IF changes[k].status = "pending"
                              THEN [changes[k] EXCEPT !.status = "accepted"]
                              ELSE changes[k]]_vars

\* C19 happens: Accept All was invoked in preview mode; an entry that
\* enterPreviewMode had materialized is accepted, on ProjectHost, and no
\* batch has run for it.
AcceptedWithoutRewrite ==
    /\ last.op = "acceptAllChanges"
    /\ flow.pc = "snapshot"
    /\ ~isPreviewMode
    /\ apply = ApplyIdle
    /\ io.op = "enterPreviewMode"
    /\ io.pc = "idle"
    /\ \E e \in Range(changes) :
          /\ e.status = "accepted"
          /\ [e EXCEPT !.status = "pending"] \in Range(io.entries)
          /\ e.filePath \in Range(io.done)
          /\ fs[RelativePath(e.filePath)] = AppliedContent(e)

-----------------------------------------------------------------------------
(* The store with the Version Store *)

CheckpointUpdates == {[autoCheckpointOnAccept |-> b] : b \in BOOLEAN}

\* a call that may create a version
VersionCall(A) ==
    A /\ UNCHANGED <<nextId, fs, apply, drain, shell, flow, retry, io>>

CheckpointNext ==
    \/ \E change \in StageInputs :
          nextId <= MaxCheckpointIds /\ StoreCall(stageChange(change))
    \/ \E p \in Paths : StoreCall(rejectChange(p) /\ UNCHANGED nextId)
    \/ \E updates \in CheckpointUpdates :
          StoreCall(updateSettingsCall(updates) /\ UNCHANGED nextId)
    \/ /\ Len(versions) < MaxCheckpointIds
       /\ VersionCall(createCheckpointBeforeAccept)
    \/ VersionCall(acceptAllWithCheckpoint)

CheckpointSpec == Init /\ [][CheckpointNext]_vars

\* the entries a bulk accept moves out of pending
Moved == {e \in Range(changes) : e.status = "pending"}

\* C20: acceptAllWithCheckpoint takes the checkpoint from the store as it is
\* before any status changes: when autoCheckpointOnAccept is on and an entry
\* is pending, one version is created whose file map holds the
\* originalContent of exactly the entries with non-null originalContent that
\* the call moves from pending to accepted, and its id is returned; else no
\* version is created and the id is null.
CheckpointBeforeAccept ==
    [][Did("acceptAllWithCheckpoint") =>
          /\ Range(last'.ret.accepted)
               = {[e EXCEPT !.status = "accepted"] : e \in Moved}
          /\ Range(last'.ret.accepted) \subseteq Range(changes')
          /\ IF Moved # {} /\ settings.autoCheckpointOnAccept
             THEN /\ Len(versions') = Len(versions) + 1
                  /\ SubSeq(versions', 1, Len(versions)) = versions
                  /\ last'.ret.checkpointId
                       = Some(versions'[Len(versions')].id)
                  /\ versions'[Len(versions')].files
                       = {<<e.filePath, e.originalContent>> :
                            e \in {m \in Moved : m.originalContent # Null}}
             ELSE /\ versions' = versions
                  /\ last'.ret.checkpointId = None]_vars

\* C20 happens: a call accepted a create and a delete entry and left a
\* checkpoint that holds the delete entry's originalContent only.
CheckpointHoldsOriginals ==
    /\ last.op = "acceptAllWithCheckpoint"
    /\ last.ret.checkpointId # None
    /\ Len(last.ret.accepted) = 2
    /\ \E e, f \in Range(last.ret.accepted) :
          /\ e.type = "create"
          /\ f.type = "delete"
          /\ e \in Range(changes)
          /\ f \in Range(changes)
          /\ versions[Len(versions)].files
               = {<<f.filePath, f.originalContent>>}

\* C21: createCheckpointBeforeAccept returns null and creates no version
\* when nothing is pending or autoCheckpointOnAccept is false; otherwise it
\* creates exactly one version whose file map holds filePath ->
\* originalContent for every pending entry with non-null originalContent and
\* for no other entry, and returns that version's id; it never changes the
\* staging store.
CheckpointOnlyWhenAsked ==
    [][Did("createCheckpointBeforeAccept") =>
          /\ UNCHANGED storeVars
          /\ IF Moved = {} \/ ~settings.autoCheckpointOnAccept
             THEN /\ versions' = versions
                  /\ last'.ret = None
             ELSE /\ versions' = Append(versions, versions'[Len(versions')])
                  /\ last'.ret = Some(versions'[Len(versions')].id)
                  /\ \A k \in 1..Len(versions) :
                        versions[k].id # versions'[Len(versions')].id
                  /\ versions'[Len(versions')].files
                       = {<<e.filePath, e.originalContent>> :
                            e \in {m \in Moved : m.originalContent # Null}}]_vars

\* C21 happens: createCheckpointBeforeAccept returned the id of a version
\* that holds a pending delete entry's originalContent and not the rejected
\* entry of the store.
CheckpointLeavesOutOthers ==
    /\ last.op = "createCheckpointBeforeAccept"
    /\ Len(versions) > 0
    /\ last.ret = Some(versions[Len(versions)].id)
    /\ \E e, g \in Range(changes) :
          /\ e.status = "pending" /\ e.type = "delete"
          /\ g.status = "rejected" /\ g.originalContent # Null
          /\ versions[Len(versions)].files
               = {<<e.filePath, e.originalContent>>}

-----------------------------------------------------------------------------
(* The Reconciler and the isEnabled gate *)

\* C22: the Reconciler changes ProjectHost only while staging is enabled,
\* so its writes never coincide with the direct writes the action pipeline
\* makes while staging is disabled.
ReconcilerWritesOnlyWhenEnabled ==
    [][(ApplyStep /\ fs' # fs) => settings.isEnabled]_vars

\* C22's failing case: staging has been switched off while a batch awaits
\* the write of an accepted entry, and the write is still in flight.
WriteInFlightWhileDisabled ==
    /\ last.op = "toggleStaging"
    /\ ~settings.isEnabled
    /\ apply.pc = "writeFile"
    /\ apply.accepted[apply.i] \in Range(changes)

\* the entry whose ProjectHost call the batch awaits
InFlight == apply.accepted[apply.i]

\* rejectChange is called for a pending entry under another key while the
\* batch awaits a ProjectHost call
RejectedDuringWrite ==
    /\ apply.pc \in {"rm", "mkdir", "writeFile"}
    /\ Did("rejectChange")
    /\ last'.arg # InFlight.filePath
    /\ HasKey(changes, last'.arg)
    /\ Lookup(changes, last'.arg)[1].status = "pending"

\* the keys of the entries the batch works on
SnapshotPaths == {apply.accepted[k].filePath : k \in 1..Len(apply.accepted)}

\* a step of the batch leaves alone the file of every rejected entry whose
\* key is not among the entries the batch works on
BatchSkipsRejected ==
    ApplyStep =>
        \A r \in Range(changes) :
           (r.status = "rejected" /\ r.filePath \notin SnapshotPaths) =>
              /\ fs'[RelativePath(r.filePath)] = fs[RelativePath(r.filePath)]
              /\ r \in Range(changes')
              /\ r.filePath \notin Range(apply'.applied)
              /\ r.filePath \notin FailedPaths(apply'.failed)

\* when the awaited rm / writeFile settles, an applied entry is out of the
\* store and a failed one is left in the store as it is
InFlightOutcome ==
    (apply.pc \in {"rm", "writeFile"} /\ ApplyStep) =>
        /\ InFlight.filePath \in Range(apply'.applied)
             => ~HasKey(changes', InFlight.filePath)
        /\ InFlight.filePath \in FailedPaths(apply'.failed)
             => Lookup(changes', InFlight.filePath)
                  = Lookup(changes, InFlight.filePath)

-----------------------------------------------------------------------------
(* Frame conditions of the store *)

\* a call of acceptChange, rejectChange, acceptAllChanges or rejectAllChanges
ResolvingCall ==
    \/ Did("acceptChange")
    \/ Did("rejectChange")
    \/ Did("acceptAllChanges")
    \/ Did("rejectAllChanges")

\* C24: acceptChange, rejectChange, acceptAllChanges and rejectAllChanges
\* neither add nor remove an entry: the store holds the same keys in the same
\* order after the call, and every entry is what it was in every field but
\* status (id, type, contents, actionId and autoApproved included).
ResolvingKeepsEntries ==
    [][ResolvingCall =>
          /\ Len(changes') = Len(changes)
          /\ \A k \in 1..Len(changes) :
                /\ changes'[k].filePath = changes[k].filePath
                /\ [changes'[k] EXCEPT !.status = changes[k].status]
                     = changes[k]
          /\ UNCHANGED <<selectedChangePath, isDiffModalOpen, settings,
                         pendingCommands, isPreviewMode>>]_vars

\* C24 happens: acceptChange accepted an entry that was not auto-approved;
\* it is in the store, accepted and still not auto-approved, next to another
\* entry.
AcceptedByHandNotAutoApproved ==
    /\ last.op = "acceptChange"
    /\ last.ret # None
    /\ last.ret[1].status = "accepted"
    /\ ~last.ret[1].autoApproved
    /\ Lookup(changes, last.ret[1].filePath) = last.ret
    /\ Len(changes) >= 2

\* C25: clearProcessedChanges removes every accepted and every rejected
\* entry and no pending one: the store afterwards holds exactly the entries
\* that were pending, each unchanged and in the same order, and the pending
\* commands, the settings and the other fields of the store are unchanged.
ClearProcessedKeepsPending ==
    [][Did("clearProcessedChanges") =>
          /\ Range(changes') = {e \in Range(changes) : e.status = "pending"}
          /\ UniquePaths(changes')
          /\ \A i, j \in 1..Len(changes') :
                i < j => KeyIndex(changes, changes'[i].filePath)
                           < KeyIndex(changes, changes'[j].filePath)
          /\ UNCHANGED <<selectedChangePath, isDiffModalOpen, settings,
                         pendingCommands, isPreviewMode>>]_vars

\* C25 happens: after clearProcessedChanges the store holds only the entry
\* staged first, still pending, while the entry staged second is gone.
ProcessedGonePendingKept ==
    /\ last.op = "clearProcessedChanges"
    /\ nextId = 3
    /\ Len(changes) = 1
    /\ changes[1].id = generateChangeId(1)
    /\ changes[1].status = "pending"

-----------------------------------------------------------------------------
(* Navigation among the pending entries *)

\* number of generateChangeId calls in a run of the navigation
MaxNavIds == 3

\* "src/b.ts", a second path no default pattern matches
PathLib == <<"s", "r", "c", "/", "b", ".", "t", "s">>

NavPaths == {PathSrc, PathLib, PathLog}

\* Array.prototype.findIndex on filePath, counted from 1; 0 is "not found"
FindIndex(pending, path) ==
    IF \E i \in 1..Len(pending) : pending[i].filePath = path
    THEN CHOOSE i \in 1..Len(pending) :
            /\ pending[i].filePath = path
            /\ \A j \in 1..(i - 1) : pending[j].filePath # path
    ELSE 0

\* the path selectNextChange selects, over the list pending
NextPath(pending, currentPath) ==
    IF currentPath = None
    THEN pending[1].filePath
    ELSE LET currentIndex == FindIndex(pending, currentPath[1]) - 1
             nextIndex == (currentIndex + 1) % Len(pending)
         IN  pending[nextIndex + 1].filePath

\* the path selectPreviousChange selects, over the list pending
PreviousPath(pending, currentPath) ==
    IF currentPath = None
    THEN pending[Len(pending)].filePath
    ELSE LET currentIndex == FindIndex(pending, currentPath[1]) - 1
             prevIndex == IF currentIndex <= 0
                          THEN Len(pending) - 1
                          ELSE currentIndex - 1
         IN  pending[prevIndex + 1].filePath

\* a navigation call over the list pending, forward for selectNextChange
Navigate(op, pending, forward) ==
    IF Len(pending) = 0
    THEN /\ Called(op, None, None)
         /\ UNCHANGED <<changes, selectedChangePath, isDiffModalOpen, settings,
                        pendingCommands, isPreviewMode>>
    ELSE LET path == IF forward
                     THEN NextPath(pending, selectedChangePath)
                     ELSE PreviousPath(pending, selectedChangePath)
         IN  /\ selectedChangePath' = Some(path)
             /\ Called(op, None, Some(path))
             /\ UNCHANGED <<changes, isDiffModalOpen, settings,
                            pendingCommands, isPreviewMode>>

\* selectNextChange that walks every entry of the store
selectNextChangeAny == Navigate("selectNextChange", changes, TRUE)

selectNextChange ==
    Navigate("selectNextChange", pendingChanges, TRUE)

selectPreviousChange ==
    Navigate("selectPreviousChange", pendingChanges, FALSE)

\* what the assistant stages in a run of the navigation
NavInputs ==
    {[filePath |-> p, type |-> "modify", originalContent |-> "A",
      newContent |-> "B", actionId |-> a] : p \in NavPaths, a \in ActionIds}

NavNext ==
    \/ \E change \in NavInputs :
          nextId <= MaxNavIds /\ StoreCall(stageChange(change))
    \/ \E p \in NavPaths : StoreCall(acceptChange(p) /\ UNCHANGED nextId)
    \/ \E p \in NavPaths : StoreCall(rejectChange(p) /\ UNCHANGED nextId)
    \/ \E p \in NavPaths : StoreCall(removeChange(p) /\ UNCHANGED nextId)
    \/ \E p \in NavPaths : StoreCall(selectChange(Some(p)) /\ UNCHANGED nextId)
    \/ StoreCall(selectChange(None) /\ UNCHANGED nextId)
    \/ StoreCall(selectNextChange /\ UNCHANGED nextId)
    \/ StoreCall(selectPreviousChange /\ UNCHANGED nextId)

NavSpec == Init /\ [][NavNext]_vars

\* the selection is the path of a pending entry of chs
OnPending(chs, sel) ==
    sel # None /\ FindIndex(WithStatus(chs, "pending"), sel[1]) > 0

NavStep == Did("selectNextChange") \/ Did("selectPreviousChange")

\* a navigation call changes nothing but the selection; with a pending entry
\* it returns the path it selects, which is that of a pending entry, and
\* with none it returns null and leaves the selection as it was
NavLandsOnPending ==
    [][NavStep =>
          /\ UNCHANGED <<changes, isDiffModalOpen, settings, pendingCommands,
                         isPreviewMode>>
          /\ IF pendingChanges = <<>>
             THEN last'.ret = None /\ UNCHANGED selectedChangePath
             ELSE /\ OnPending(changes', selectedChangePath')
                  /\ last'.ret = selectedChangePath']_vars

\* from a pending selection the call moves one place along the pending
\* entries, wrapping around; with no selection it takes the first or the last
NavMovesOnePlace ==
    [][(NavStep /\ pendingChanges # <<>>) =>
          LET pending == pendingChanges
              n == Len(pending)
              i == FindIndex(pending, selectedChangePath[1])
              j == FindIndex(pending, selectedChangePath'[1])
          IN  /\ (selectedChangePath = None /\ Did("selectNextChange"))
                    => j = 1
              /\ (selectedChangePath = None /\ Did("selectPreviousChange"))
                    => j = n
              /\ (OnPending(changes, selectedChangePath)
                    /\ Did("selectNextChange"))
                    => j = (IF i = n THEN 1 ELSE i + 1)
              /\ (OnPending(changes, selectedChangePath)
                    /\ Did("selectPreviousChange"))
                    => j = (IF i = 1 THEN n ELSE i - 1)]_vars

\* next followed by previous, and previous followed by next, come back to
\* the pending entry they started from
NavRoundTrip ==
    [](OnPending(changes, selectedChangePath) =>
          LET pending == pendingChanges
          IN  /\ PreviousPath(pending, Some(NextPath(pending, selectedChangePath)))
                    = selectedChangePath[1]
              /\ NextPath(pending, Some(PreviousPath(pending, selectedChangePath)))
                    = selectedChangePath[1])

\* C26: with a pending entry selectNextChange / selectPreviousChange leave
\* the selection on a pending entry: from a pending selection the following /
\* preceding pending entry in store order with wrap-around (next then
\* previous comes back), with no selection the first / last pending entry;
\* with no pending entry they return null and leave the selection unchanged.
NavigationCyclesPending ==
    NavLandsOnPending /\ NavMovesOnePlace /\ NavRoundTrip

\* C26 happens: selectNextChange went from the first entry to the third,
\* past the accepted entry between them.
NextSkippedAccepted ==
    /\ last.op = "selectNextChange"
    /\ Len(changes) = 3
    /\ changes[1].status = "pending"
    /\ changes[2].status = "accepted"
    /\ changes[3].status = "pending"
    /\ selectedChangePath = Some(changes[3].filePath)
    /\ last.ret = selectedChangePath

-----------------------------------------------------------------------------
(* The argument of acceptChange / rejectChange: a path or an id *)

\* number of generateChangeId calls in a run of the target resolution
MaxTargetIds == 3

\* "change-1" used as a file path: the text of the first id
PathLikeId == generateChangeId(1)

TargetPaths == {PathSrc, PathLikeId}

\* what the assistant stages in a run of the target resolution
TargetInputs ==
    {[filePath |-> p, type |-> "modify", originalContent |-> "A",
      newContent |-> "B", actionId |-> a] : p \in TargetPaths, a \in ActionIds}

\* what callers pass: a path or an id, one text being both
TargetTexts == TargetPaths \cup {generateChangeId(n) : n \in 1..MaxTargetIds}

TargetNext ==
    \/ \E change \in TargetInputs :
          nextId <= MaxTargetIds /\ StoreCall(stageChange(change))
    \/ \E t \in TargetTexts : StoreCall(acceptChange(t) /\ UNCHANGED nextId)
    \/ \E t \in TargetTexts : StoreCall(rejectChange(t) /\ UNCHANGED nextId)
    \/ \E p \in TargetPaths : StoreCall(removeChange(p) /\ UNCHANGED nextId)

TargetSpec == Init /\ [][TargetNext]_vars

\* the call op(arg) gave status to the pending entry under path and to
\* nothing else, and returned that entry; on another entry it did nothing
ResolvedAt(path, status) ==
    LET e == Lookup(changes, path)[1] IN
    IF e.status = "pending"
    THEN /\ changes' = SetKey(changes, path, [e EXCEPT !.status = status])
         /\ last'.ret = Some([e EXCEPT !.status = status])
    ELSE /\ changes' = changes
         /\ last'.ret = None

TargetByKeyThenId(op, status) ==
    Did(op) =>
        LET t == last'.arg
            byId == {e \in Range(changes) : e.id = t}
        IN  IF HasKey(changes, t)
            THEN ResolvedAt(t, status)
            ELSE IF byId # {}
            THEN \A e \in byId : ResolvedAt(e.filePath, status)
            ELSE changes' = changes /\ last'.ret = None

\* C27: acceptChange / rejectChange take their argument as a filePath key
\* first and as an entry id only when no entry has that key: the id of a
\* pending entry transitions it as its path would, and an argument that is a
\* key targets the entry under the key even when another entry has it as id.
KeyBeforeId ==
    [][/\ TargetByKeyThenId("acceptChange", "accepted")
       /\ TargetByKeyThenId("rejectChange", "rejected")]_vars

\* C27 happens: acceptChange was given a text that is the id of the first
\* entry and the key of the second, and accepted the second.
KeyWonOverId ==
    /\ last.op = "acceptChange"
    /\ Len(changes) = 2
    /\ changes[1].id = last.arg
    /\ changes[1].status = "pending"
    /\ changes[2].filePath = last.arg
    /\ changes[2].status = "accepted"
    /\ last.ret = Some(changes[2])

-----------------------------------------------------------------------------
(* The panel: Reject All, which rejects what is pending, reverts the       *)
(* rejected changes and drops the queue                                    *)

\* number of generateChangeId calls in a run of the Reject All flow
MaxRejectIds == 2

\* isApplying while handleRejectAll awaits exitPreviewMode (fromPreview) or
\* revertChangesToWebContainer
FlowReject(fromPreview) ==
    [pc |-> IF fromPreview THEN "rejectExit" ELSE "reject",
     commands |-> <<>>, gating |-> <<>>]

RejectPcs == {"reject", "rejectExit"}

\* handleRejectAll, up to its first await: in preview mode exitPreviewMode is
\* called; otherwise rejectAllChanges() and then applyRejectedChanges
handleRejectAll ==
    /\ flow.pc = "idle"
    /\ PanelShown
    /\ IF isPreviewMode
       THEN exitPreviewMode
       ELSE LET rejected == ResolvedAll(changes, "rejected") IN
            /\ io.pc = "idle"
            /\ RevertAdvance(rejected, selectedChangePath, <<>>, <<>>,
                             WithStatus(rejected, "rejected"), 1)
            /\ UNCHANGED fs
    /\ flow' = FlowReject(isPreviewMode)
    /\ UNCHANGED <<apply, drain, shell, versions>>

\* RejectFinish that leaves the queue as it is
RejectFinishKeeps ==
    /\ flow.pc \in RejectPcs
    /\ io.pc = "idle"
    /\ changes' = IF flow.pc = "rejectExit"
                  THEN ResolvedAll(changes, "rejected")
                  ELSE changes
    /\ Called("clearPendingCommands", None, None)
    /\ flow' = FlowIdle
    /\ UNCHANGED <<selectedChangePath, isDiffModalOpen, settings,
                   pendingCommands, isPreviewMode, nextId, fs, apply, drain,
                   shell, io, versions>>

\* the awaited call has returned and handleRejectAll goes on to its end:
\* after exitPreviewMode rejectAllChanges() with no revert, then in both
\* branches clearPendingCommands(); finally setIsApplying(false)
RejectFinish ==
    /\ flow.pc \in RejectPcs
    /\ io.pc = "idle"
    /\ changes' = IF flow.pc = "rejectExit"
                  THEN ResolvedAll(changes, "rejected")
                  ELSE changes
    /\ pendingCommands' = <<>>
    /\ Called("clearPendingCommands", None, None)
    /\ flow' = FlowIdle
    /\ UNCHANGED <<selectedChangePath, isDiffModalOpen, settings,
                   isPreviewMode, nextId, fs, apply, drain, shell, io,
                   versions>>

\* the queue as it is when handleRejectAll is called, kept for the
\* properties only
Queued(A) ==
    /\ A
    /\ retry' = IF flow.pc = "idle" /\ flow'.pc \in RejectPcs
                THEN [retry EXCEPT !.prev = Some(pendingCommands)]
                ELSE retry

\* the commands the assistant queues in a run of the Reject All flow
RejectCommands ==
    [type : CommandTypes, command : {TextA}, artifactId : ArtifactIds]

RejectStoreNext ==
    \/ \E change \in PreviewInputs :
          nextId <= MaxRejectIds /\ StoreCall(stageChange(change))
    \/ \E command \in RejectCommands :
          nextId <= MaxRejectIds /\ StoreCall(queueCommand(command))

RejectNext ==
    \/ Queued(handleRejectAll)
    \/ Queued(RejectFinish)
    \/ \E ok \in BOOLEAN :
          Queued(RevertMkdir(ok)
                 /\ UNCHANGED <<apply, drain, shell, flow, versions>>)
    \/ \E ok \in BOOLEAN :
          Queued(RevertWriteFile(ok)
                 /\ UNCHANGED <<apply, drain, shell, flow, versions>>)

RejectPreviewNext ==
    \/ Queued(handleTogglePreviewMode /\ UNCHANGED versions)
    \/ \E ok \in BOOLEAN :
          Queued(PreviewSettles(EnterMkdir(ok)) /\ UNCHANGED versions)
    \/ \E ok \in BOOLEAN :
          Queued(PreviewSettles(EnterRm(ok)) /\ UNCHANGED versions)
    \/ \E ok \in BOOLEAN :
          Queued(PreviewSettles(EnterWriteFile(ok)) /\ UNCHANGED versions)
    \/ \E ok \in BOOLEAN :
          Queued(PreviewSettles(ExitMkdir(ok)) /\ UNCHANGED versions)
    \/ \E ok \in BOOLEAN :
          Queued(PreviewSettles(ExitRm(ok)) /\ UNCHANGED versions)
    \/ \E ok \in BOOLEAN :
          Queued(PreviewSettles(ExitWriteFile(ok)) /\ UNCHANGED versions)

RejectAcceptNext ==
    \/ handleAcceptAll
    \/ \E ok \in BOOLEAN : FlowApply(ApplyMkdir(ok))
    \/ \E ok \in BOOLEAN : FlowApply(ApplyRm(ok))
    \/ \E ok \in BOOLEAN : FlowApply(ApplyWriteFile(ok))
    \/ \E ok \in BOOLEAN : DrainReady(ok)
    \/ \E ok \in BOOLEAN : DrainExec(ok)
    \/ \E k \in 1..MaxRejectIds : \E ok \in BOOLEAN : StartSettles(k, ok)
    \/ FlowSnapshot

\* isApplying while handleReject(filePath) awaits: first the container
\* (pc "rejectOne"), then applyRejectedChange (pc "revertOne"); the argument
\* is kept in gating
FlowRejectOne(filePath) ==
    [pc |-> "rejectOne", commands |-> <<>>, gating |-> <<filePath>>]

\* handleReject(filePath), clicked on a pending entry, up to its first
\* await: rejectChange(filePath)
handleReject(filePath) ==
    /\ flow.pc = "idle"
    /\ PanelShown
    /\ HasKey(changes, filePath)
    /\ Lookup(changes, filePath)[1].status = "pending"
    /\ rejectChange(filePath)
    /\ flow' = FlowRejectOne(filePath)
    /\ UNCHANGED <<nextId, fs, apply, drain, shell, io, versions>>

\* the container is at hand: applyRejectedChange(filePath, wc) is called
HandleRejectReverts ==
    /\ flow.pc = "rejectOne"
    /\ applyRejectedChange(flow.gating[1])
    /\ flow' = [flow EXCEPT !.pc = "revertOne"]
    /\ UNCHANGED <<apply, drain, shell, versions>>

\* applyRejectedChange has returned; finally setIsApplying(false)
HandleRejectFinish ==
    /\ flow.pc = "revertOne"
    /\ io.pc = "idle"
    /\ flow' = FlowIdle
    /\ UNCHANGED <<storeVars, nextId, fs, apply, drain, shell, io, versions,
                   last>>

RejectOneNext ==
    \/ \E p \in Paths : Queued(handleReject(p))
    \/ Queued(HandleRejectReverts)
    \/ Queued(HandleRejectFinish)

RejectSpecNext ==
    \/ RejectStoreNext
    \/ RejectNext
    \/ RejectPreviewNext
    \/ RejectAcceptNext
    \/ RejectOneNext

RejectSpec == Init /\ [][RejectSpecNext]_vars

\* the ids of the commands the shell has been sent
SentIds(log) == {log[k].id : k \in 1..Len(log)}

\* handleRejectAll returns
RejectReturned == flow.pc \in RejectPcs /\ flow'.pc = "idle"

\* C28: after the Reject All flow the pending-command queue is empty, and
\* the flow has sent the shell none of the commands that were queued: no
\* step of the flow sends a command, and at its end none of the commands
\* queued at its start is among those the shell has received.
RejectAllDropsQueue ==
    /\ [][RejectReturned =>
             /\ pendingCommands' = <<>>
             /\ \A k \in 1..Len(retry.prev[1]) :
                   retry.prev[1][k].id \notin SentIds(shell'.log)]_vars
    /\ [][(flow.pc \in RejectPcs \/ flow'.pc \in RejectPcs) =>
             Sent(shell'.log) = Sent(shell.log)]_vars

\* C28 happens: Reject All has returned with a command in the queue at its
\* start, after an Accept All flow that had sent the shell another command;
\* the queue is empty and the shell has not received the queued command.
QueueDroppedUnsent ==
    /\ last.op = "clearPendingCommands"
    /\ flow = FlowIdle
    /\ retry.prev # None
    /\ Len(retry.prev[1]) > 0
    /\ shell.log # <<>>
    /\ pendingCommands = <<>>
    /\ \A k \in 1..Len(retry.prev[1]) :
          retry.prev[1][k].id \notin SentIds(shell.log)

-----------------------------------------------------------------------------
(* The Pattern Matcher as a pure function *)

\* length of the pattern list in a call of the Pattern Matcher
MaxPatterns == 2

\* "node_modules/foo/bar.js"
PathNodeModules ==
    <<"n", "o", "d", "e", "_", "m", "o", "d", "u", "l", "e", "s", "/", "f", "o", "o", "/", "b", "a", "r", ".", "j", "s">>

\* "src/a.lock"
PathALock == <<"s", "r", "c", "/", "a", ".", "l", "o", "c", "k">>

\* "src/app.ts"
PathAppTs == <<"s", "r", "c", "/", "a", "p", "p", ".", "t", "s">>

\* "src\a.log", as a Windows tool spells it
PathBackslash == <<"s", "r", "c", "\\", "a", ".", "l", "o", "g">>

\* "a", a line feed, "b.log": a file name with a line terminator in it
PathTwoLines == <<"a", "\n", "b", ".", "l", "o", "g">>

\* "node_modules/**"
PatternNodeModules == <<"n", "o", "d", "e", "_", "m", "o", "d", "u", "l", "e", "s", "/", "*", "*">>

\* "*.lock"
PatternLock == <<"*", ".", "l", "o", "c", "k">>

\* "src/**/a.ts"
PatternSrcDeep == <<"s", "r", "c", "/", "*", "*", "/", "a", ".", "t", "s">>

\* "**/**", a pattern with two '**'
PatternTwoDeep == <<"*", "*", "/", "*", "*">>

\* "src/*"
PatternSrcAny == <<"s", "r", "c", "/", "*">>

\* "a.log", a pattern without wildcard
PatternALog == PathLog

MatchPaths ==
    {PathSrc, PathLog, PathAbs, PathNodeModules, PathALock, PathAppTs,
     PathBackslash, PathTwoLines}

MatchPatterns ==
    {PatternNodeModules, PatternLock, PatternLog, PatternSrcDeep,
     PatternTwoDeep, PatternSrcAny, PatternALog}

\* the pattern lists of at most MaxPatterns patterns
PatternLists ==
    UNION {[1..n -> MatchPatterns] : n \in 0..MaxPatterns}

\* the caller has a path and a pattern list at hand
MatchInit ==
    /\ changes = <<>>
    /\ selectedChangePath = None
    /\ isDiffModalOpen = FALSE
    /\ settings = DEFAULT_SETTINGS
    /\ pendingCommands = <<>>
    /\ isPreviewMode = FALSE
    /\ nextId = 1
    /\ fs = InitialFiles
    /\ apply = ApplyIdle
    /\ drain = DrainIdle
    /\ shell = ShellIdle
    /\ flow = FlowIdle
    /\ retry = RetryIdle
    /\ io = IoIdle
    /\ versions = <<>>
    /\ \E filePath \in MatchPaths : \E patterns \in PatternLists :
          last = [op |-> "input",
                  arg |-> [filePath |-> filePath, patterns |-> patterns],
                  ret |-> None]

\* a call of matchesAutoApprovePattern: the store is not read or written
matchCall(filePath, patterns) ==
    /\ Called("matchesAutoApprovePattern",
              [filePath |-> filePath, patterns |-> patterns],
              matchesAutoApprovePattern(filePath, patterns))
    /\ UNCHANGED <<storeVars, nextId, fs, apply, drain, shell, flow, retry,
                   io, versions>>

MatchNext ==
    /\ last.op = "input"
    /\ matchCall(last.arg.filePath, last.arg.patterns)

MatchSpec == MatchInit /\ [][MatchNext]_vars

\* s is pattern with every '*' replaced by some string
RECURSIVE GlobTest(_, _)
GlobTest(pattern, s) ==
    IF Len(pattern) = 0 THEN Len(s) = 0
    ELSE IF pattern[1] = "*"
    THEN \E k \in 0..Len(s) :
            GlobTest(Tail(pattern), SubSeq(s, k + 1, Len(s)))
    ELSE Len(s) > 0 /\ s[1] = pattern[1] /\ GlobTest(Tail(pattern), Tail(s))

\* s is a run without line terminator, then pieces[i], and so on to the
\* last piece, which ends s
RECURSIVE FitsFrom(_, _, _)
FitsFrom(pieces, i, s) ==
    \E k \in 0..Len(s) :
        /\ \A j \in 1..k : s[j] \notin LineTerminators
        /\ OccursAt(s, pieces[i], k + 1)
        /\ IF i = Len(pieces)
           THEN k + Len(pieces[i]) = Len(s)
           ELSE FitsFrom(pieces, i + 1,
                         SubSeq(s, k + Len(pieces[i]) + 1, Len(s)))

\* s is the texts between the '*' of pattern, in order and from end to end,
\* with a run of characters other than line terminators for each '*'
FitsPieces(pattern, s) ==
    LET pieces == Split(pattern, <<"*">>) IN
    /\ StartsWith(s, pieces[1])
    /\ FitsFrom(pieces, 2, SubSeq(s, Len(pieces[1]) + 1, Len(s)))

\* the text before and the text after the one '**' of pattern
Around(pattern) ==
    LET at == IndexOf(pattern, <<"*", "*">>) IN
    [before |-> SubSeq(pattern, 1, at - 1),
     after |-> SubSeq(pattern, at + 2, Len(pattern))]

\* the number of '**' in pattern, counted from the left
RECURSIVE DeepCount(_)
DeepCount(pattern) ==
    LET at == IndexOf(pattern, <<"*", "*">>) IN
    IF at = 0 THEN 0
    ELSE 1 + DeepCount(SubSeq(pattern, at + 2, Len(pattern)))

\* what a pattern with '*' and no '**' asks of s: with anyString '*' is any
\* string, else any run of characters other than line terminators
Star(pattern, s, anyString) ==
    IF anyString THEN GlobTest(pattern, s) ELSE FitsPieces(pattern, s)

\* the rule of the three pattern classes
RuleMatches(path, pattern, anyString) ==
    IF DeepCount(pattern) > 0
    THEN /\ DeepCount(pattern) = 1
         /\ StartsWith(path, Around(pattern).before)
         /\ EndsWith(path, Around(pattern).after)
    ELSE IF \E i \in 1..Len(pattern) : pattern[i] = "*"
    THEN \/ Star(pattern, path, anyString)
         \/ Star(pattern, FileName(path), anyString)
    ELSE path = pattern \/ FileName(path) = pattern

\* filePath with every backslash turned into '/'
Slashed(filePath) ==
    [i \in 1..Len(filePath) |-> IF filePath[i] = "\\" THEN "/" ELSE filePath[i]]

\* every call returns what the rule gives for some pattern of the list
ReturnsRule(anyString) ==
    last.op = "matchesAutoApprovePattern" =>
        last.ret = (\E i \in 1..Len(last.arg.patterns) :
                       RuleMatches(Slashed(last.arg.filePath),
                                   last.arg.patterns[i], anyString))

\* the examples: node_modules/foo/bar.js matches node_modules/**, src/a.lock
\* matches *.lock, src/app.ts does not, and no path matches the empty list
MatchExamples ==
    /\ matchesAutoApprovePattern(PathNodeModules, <<PatternNodeModules>>)
    /\ matchesAutoApprovePattern(PathALock, <<PatternLock>>)
    /\ ~matchesAutoApprovePattern(PathAppTs, <<PatternLock>>)
    /\ \A filePath \in MatchPaths : ~matchesAutoApprovePattern(filePath, <<>>)

-----------------------------------------------------------------------------
(* What the Reconciler removes from the store *)

\* C30: the Reconciler removes from the store only the entry it has applied:
\* an entry that a step of applyAcceptedChanges takes out of the store is
\* the entry of the batch whose write has just settled, so an entry that
\* stageChange put in its place during the write is still in the store when
\* the batch finishes.
ReconcilerRemovesOnlyApplied ==
    [][ApplyStep =>
          \A i \in 1..Len(changes) :
              (\A j \in 1..Len(changes') : changes'[j].id # changes[i].id)
              => /\ apply.pc \in {"rm", "writeFile"}
                 /\ changes[i].id = apply.accepted[apply.i].id]_vars

\* C30's failing case is at hand: stageChange has just replaced the entry
\* whose write the batch awaits, and the new entry is pending.
RestagedDuringWrite ==
    /\ last.op = "stageChange"
    /\ apply.pc = "writeFile"
    /\ last.ret # None
    /\ last.ret[1].filePath = apply.accepted[apply.i].filePath
    /\ last.ret[1].id # apply.accepted[apply.i].id
    /\ last.ret[1].status = "pending"
    /\ Lookup(changes, last.ret[1].filePath) = last.ret

-----------------------------------------------------------------------------
(* What the drain removes from the queue *)

\* the ids of the commands in the queue
QueuedIds(queue) == {queue[k].id : k \in 1..Len(queue)}

\* C31: every command that a drain removes from the queue was dispatched to
\* the shell: a command queued while the drain awaits a shell command is
\* either executed by that drain or still in the queue when the drain has
\* finished.
DrainRemovesOnlyDispatched ==
    [][drain' # drain =>
          \A id \in QueuedIds(pendingCommands) \ QueuedIds(pendingCommands') :
              id \in SentIds(shell'.log)]_vars

\* C31's failing case is at hand: a command has just been queued while the
\* drain awaits a shell command of a batch that does not hold it.
QueuedDuringDrain ==
    /\ drain.pc = "exec"
    /\ last.op = "queueCommand"
    /\ last.ret # None
    /\ last.ret[1].id \notin QueuedIds(drain.commands)
    /\ last.ret[1].id \in QueuedIds(pendingCommands)

-----------------------------------------------------------------------------
(* Accept All and what ProjectHost holds afterwards *)

\* the last enterPreviewMode returned without a failed file
EnteredCleanly ==
    io.op = "enterPreviewMode" /\ io.pc = "idle" /\ io.failed = <<>>

\* handleAcceptAll is called in preview mode: no write follows in the flow
AcceptAllFromPreview ==
    flow.pc = "idle" /\ flow'.pc # "idle" /\ AcceptAllInPreview

\* applyAcceptedChanges returns to handleAcceptAll with nothing failed
AppliedCleanly ==
    flow.pc = "apply" /\ apply'.pc = "idle" /\ apply'.failed = <<>>

\* C32: after an Accept All flow without ProjectHost failure, ProjectHost
\* holds the newContent of every create / modify entry the flow accepted
\* and no file for every delete it accepted, entries staged after preview
\* mode was entered included.
AcceptAllLeavesNewContent ==
    /\ [][(AcceptAllFromPreview /\ EnteredCleanly) =>
             \A e \in Range(Transitioned(changes, "accepted")) :
                 AppliedTo(fs', e)]_vars
    /\ [][AppliedCleanly =>
             \A e \in Range(flow.gating) : AppliedTo(fs', e)]_vars

\* C32's failing case: Accept All has run in preview mode, entered without
\* failure, and has accepted an entry staged after the mode was entered,
\* which ProjectHost does not hold.
AcceptedUnmaterialized ==
    /\ last.op = "acceptAllChanges"
    /\ ~isPreviewMode
    /\ io.op = "enterPreviewMode"
    /\ io.failed = <<>>
    /\ \E e \in Range(last.ret) :
          /\ e \in Range(changes)
          /\ \A k \in 1..Len(io.entries) : io.entries[k].id # e.id
          /\ ~AppliedTo(fs, e)

-----------------------------------------------------------------------------
(* Rejected creates and ProjectHost *)

\* the entry e leaves the store in a step of applyRejectedChanges or
\* applyRejectedChange
Reverted(e) ==
    /\ io' # io
    /\ io'.op \in RevertOps
    /\ e.status = "rejected"
    /\ e.id \notin {changes'[k].id : k \in 1..Len(changes')}

\* handleRejectAll goes on after an exitPreviewMode without a failed file
RejectedAfterCleanExit ==
    flow.pc = "rejectExit" /\ flow'.pc = "idle" /\ io.failed = <<>>

\* C33: after a create change has been rejected and reverted, by a single
\* reject or by Reject All, ProjectHost has no file at its path that the
\* staging engine put there (a file with the content the entry creates),
\* also when preview mode had materialized the file before the rejection.
RejectedCreateLeavesNoFile ==
    [][\A e \in Range(changes) :
          (/\ e.type = "create"
           /\ \/ Reverted(e)
              \/ RejectedAfterCleanExit /\ e.status = "pending")
          => fs'[RelativePath(e.filePath)] # e.newContent]_vars

\* C33's failing case: a single reject in preview mode has reverted a
\* create entry and removed it, and the file preview mode wrote is still
\* on ProjectHost.
PreviewedCreateLeftBehind ==
    /\ last.op = "applyRejectedChange"
    /\ last.ret = SingleResult(TRUE, "")
    /\ isPreviewMode
    /\ io.op = "applyRejectedChange"
    /\ io.entries[1].type = "create"
    /\ ~HasKey(changes, last.arg)
    /\ fs[RelativePath(last.arg)] = io.entries[1].newContent

-----------------------------------------------------------------------------
(* What Accept All and Reject All leave in the store *)

\* no entry of the store has the id of an entry of the set
AllGone(entries, chs) ==
    \A e \in entries : \A k \in 1..Len(chs) : chs[k].id # e.id

\* Accept All returns after its preview branch, its acceptAllChanges being
\* the last store call
AcceptAllDoneFromPreview ==
    /\ flow.pc = "snapshot"
    /\ flow'.pc = "idle"
    /\ last.op = "acceptAllChanges"
    /\ io.op = "enterPreviewMode"
    /\ io.failed = <<>>

\* Reject All goes on after applyRejectedChanges returned nothing failed
RejectedAfterCleanRevert ==
    /\ flow.pc = "reject"
    /\ flow'.pc = "idle"
    /\ io.op = "applyRejectedChanges"
    /\ io.failed = <<>>

\* C34: after an Accept All or a Reject All flow without ProjectHost
\* failure, none of the entries the flow transitioned is still in the store
\* as accepted or rejected, whether preview mode was on at its start or not.
FlowsLeaveNothingResolved ==
    /\ [][AppliedCleanly => AllGone(Range(flow.gating), changes')]_vars
    /\ [][RejectedAfterCleanRevert => AllGone(Range(io.entries), changes')]_vars
    /\ [][AcceptAllDoneFromPreview => AllGone(Range(last.ret), changes')]_vars
    /\ [][RejectedAfterCleanExit =>
             AllGone(Range(pendingChanges), changes')]_vars

\* C34's failing case: Accept All has returned after its preview branch,
\* and the entries it accepted, materialized on ProjectHost, are still in
\* the store as accepted.
AcceptedLeftInStore ==
    /\ flow = FlowIdle
    /\ last.op = "acceptAllChanges"
    /\ last.ret # <<>>
    /\ io.op = "enterPreviewMode"
    /\ io.failed = <<>>
    /\ ~isPreviewMode
    /\ \A e \in Range(last.ret) :
          /\ e \in Range(changes)
          /\ e.status = "accepted"
          /\ AppliedTo(fs, e)

-----------------------------------------------------------------------------
(* The selection and the entries that leave the store *)

\* number of generateChangeId calls in a run of the selection
MaxSelectIds == 2

\* the store with callers that select existing entries only
SelectNext ==
    \/ \E change \in StageInputs :
          nextId <= MaxSelectIds /\ StoreCall(stageChange(change))
    \/ \E p \in Paths : StoreCall(acceptChange(p) /\ UNCHANGED nextId)
    \/ \E p \in Paths : StoreCall(rejectChange(p) /\ UNCHANGED nextId)
    \/ \E p \in Paths : StoreCall(removeChange(p) /\ UNCHANGED nextId)
    \/ StoreCall(clearStaging /\ UNCHANGED nextId)
    \/ StoreCall(clearProcessedChanges /\ UNCHANGED nextId)
    \/ \E p \in Paths :
          /\ HasKey(changes, p)
          /\ StoreCall(selectChange(Some(p)) /\ UNCHANGED nextId)
    \/ StoreCall(selectChange(None) /\ UNCHANGED nextId)
    \/ StoreCall(selectNextChange /\ UNCHANGED nextId)
    \/ StoreCall(selectPreviousChange /\ UNCHANGED nextId)

SelectSpec == Init /\ [][SelectNext]_vars

\* the selection is null or the filePath of an entry of the store
SelectionInStore ==
    selectedChangePath = None \/ HasKey(changes, selectedChangePath[1])

\* C35: whenever an entry is removed from the store (removeChange,
\* clearStaging, clearProcessedChanges), a selection pointing at it is
\* cleared, so that selectedChangePath is always null or the filePath of an
\* entry of the store when callers select existing entries only.
SelectionNeverDangles ==
    /\ [][(/\ selectedChangePath # None
           /\ HasKey(changes, selectedChangePath[1])
           /\ ~HasKey(changes', selectedChangePath[1]))
          => selectedChangePath' = None]_vars
    /\ []SelectionInStore

\* C35's failing case: clearProcessedChanges has removed the selected entry
\* and the selection still names its path.
SelectionLeftDangling ==
    /\ last.op = "clearProcessedChanges"
    /\ selectedChangePath # None
    /\ ~HasKey(changes, selectedChangePath[1])

-----------------------------------------------------------------------------
(* Auto-approved entries and the review statuses *)

\* an auto-approved entry is accepted, a rejected entry is not auto-approved
AutoApprovedAccepted ==
    \A i \in 1..Len(changes) :
        /\ changes[i].autoApproved => changes[i].status = "accepted"
        /\ changes[i].status = "rejected" => ~changes[i].autoApproved

\* C36: in every reachable state every entry with autoApproved true has
\* status accepted and every rejected entry has autoApproved false; no store
\* operation rejects an auto-approved entry or returns it to review: while
\* the entry stays in the store it stays accepted.
AutoApprovedNeverRejected ==
    /\ []AutoApprovedAccepted
    /\ [][\A i \in 1..Len(changes) : \A j \in 1..Len(changes') :
            (changes[i].autoApproved /\ changes'[j].id = changes[i].id)
            => changes'[j] = changes[i]]_vars

\* C36's case: rejectChange has been called on the path of an auto-approved
\* entry and rejectAllChanges' turn came with a pending entry beside it.
RejectRefusedOnAutoApproved ==
    /\ last.op \in {"rejectChange", "rejectAllChanges"}
    /\ \E i \in 1..Len(changes) :
          /\ changes[i].autoApproved
          /\ last.op = "rejectChange" => last.arg = changes[i].filePath
          /\ last.op = "rejectAllChanges" =>
                \E j \in 1..Len(changes) : changes[j].status = "rejected"

-----------------------------------------------------------------------------
(* The settings operations leave the entries and the queue alone *)

\* the settings operations beside staged entries and queued commands
FrameNext ==
    \/ SettingsNext
    \/ \E command \in CommandInputs :
          nextId <= MaxSettingsIds /\ StoreCall(queueCommand(command))

FrameSpec == Init /\ [][FrameNext]_vars

SettingsOps ==
    {"updateSettings", "toggleStaging", "addAutoApprovePattern",
     "removeAutoApprovePattern", "resetSettings"}

\* C37: updateSettings, toggleStaging, addAutoApprovePattern,
\* removeAutoApprovePattern and resetSettings change only the settings: the
\* entries keep their status and autoApproved flag (here: every field) and
\* the pending commands, the selection, the modal flag and the preview flag
\* are unchanged.
SettingsOpsChangeSettingsOnly ==
    [][last'.op \in SettingsOps =>
          /\ changes' = changes
          /\ pendingCommands' = pendingCommands
          /\ UNCHANGED <<selectedChangePath, isDiffModalOpen, isPreviewMode,
                         nextId>>]_vars

\* C37's cases: a pattern has been added that matches the path of an entry
\* still pending, or auto-approval has been switched off beside an
\* auto-accepted entry; a command is queued in both.
SettingsChangedBesideEntries ==
    /\ pendingCommands # <<>>
    /\ \E i \in 1..Len(changes) :
          \/ /\ last.op = "addAutoApprovePattern"
             /\ changes[i].status = "pending"
             /\ settings.autoApproveEnabled
             /\ matchesAutoApprovePattern(changes[i].filePath,
                                          settings.autoApprovePatterns)
          \/ /\ last.op = "updateSettings"
             /\ ~settings.autoApproveEnabled
             /\ changes[i].autoApproved
             /\ changes[i].status = "accepted"

-----------------------------------------------------------------------------
(* Two applyAcceptedChanges invocations at once: the first is kept in apply, *)
(* the one called while it awaits ProjectHost is kept in io                  *)

\* number of generateChangeId calls in a run of the two invocations
MaxOverlapIds == 2

\* the other invocation moves to entry i with the given lists, or returns
OverlapAdvance(accepted, i, applied, failed) ==
    /\ io' = [op |-> "apply",
              pc |-> FirstCall(accepted, i),
              entries |-> accepted,
              i |-> i,
              done |-> applied,
              failed |-> failed,
              mkdir |-> "none"]
    /\ IF FirstCall(accepted, i) = "idle"
       THEN Called("applyAcceptedChanges", None, ApplyResult(applied, failed))
       ELSE UNCHANGED last

\* applyAcceptedChanges called again: const accepted = getAcceptedChanges()
applyAcceptedChangesAgain ==
    /\ io.pc = "idle"
    /\ OverlapAdvance(getAcceptedChanges, 1, <<>>, <<>>)
    /\ UNCHANGED <<storeVars, nextId, fs>>

\* the ProjectHost call the other invocation awaits settles
OverlapSettles(ok) ==
    LET change == io.entries[io.i]
        relativePath == RelativePath(change.filePath)
    IN /\ io.op = "apply"
       /\ io.pc \in {"mkdir", "rm", "writeFile"}
       /\ IF io.pc = "mkdir"
          THEN /\ io' = [io EXCEPT !.pc = "writeFile"]
               /\ UNCHANGED <<storeVars, nextId, fs, last>>
          ELSE IF ok
          THEN /\ fs' = [fs EXCEPT ![relativePath] =
                            IF io.pc = "rm" THEN Absent ELSE change.newContent]
               /\ changes' = RemovedChanges(changes, change.filePath)
               /\ selectedChangePath' =
                      RemovedSelection(changes, selectedChangePath,
                                       change.filePath)
               /\ OverlapAdvance(io.entries, io.i + 1,
                                 Append(io.done, change.filePath), io.failed)
               /\ UNCHANGED <<isDiffModalOpen, settings, pendingCommands,
                              isPreviewMode, nextId>>
          ELSE /\ OverlapAdvance(io.entries, io.i + 1, io.done,
                                 Append(io.failed,
                                        [path |-> change.filePath,
                                         error |-> "Error"]))
               /\ UNCHANGED <<storeVars, nextId, fs>>

OverlapStoreNext ==
    \/ \E change \in StageInputs :
          nextId <= MaxOverlapIds /\ StoreCall(stageChange(change))
    \/ \E p \in Paths : StoreCall(acceptChange(p) /\ UNCHANGED nextId)

OverlapNext ==
    \/ OverlapStoreNext
    \/ ApplyNext
    \/ /\ applyAcceptedChangesAgain
       /\ UNCHANGED <<apply, drain, shell, flow, retry, versions>>
    \/ \E ok \in BOOLEAN :
          /\ OverlapSettles(ok)
          /\ UNCHANGED <<apply, drain, shell, flow, retry, versions>>

OverlapSpec == Init /\ [][OverlapNext]_vars

\* the ids of the entries an invocation has in its applied list
AppliedIds(accepted, applied) ==
    {accepted[j].id : j \in {k \in 1..Len(accepted) :
                                 accepted[k].filePath \in Range(applied)}}

\* C38: when two applyAcceptedChanges invocations overlap, each accepted
\* entry is written to ProjectHost by only one of them and is in the applied
\* list of at most one of them.
OverlapAppliesEachOnce ==
    /\ [](AppliedIds(apply.accepted, apply.applied)
            \cap AppliedIds(io.entries, io.done) = {})
    /\ [][(fs' # fs /\ apply' # apply) =>
            apply.accepted[apply.i].id
                \notin AppliedIds(io.entries, io.done)]_vars
    /\ [][(fs' # fs /\ io' # io) =>
            io.entries[io.i].id
                \notin AppliedIds(apply.accepted, apply.applied)]_vars

\* C38's failing case: both invocations await a ProjectHost call for the
\* same accepted entry.
BothAwaitSameEntry ==
    /\ apply.pc \in {"mkdir", "rm", "writeFile"}
    /\ io.pc \in {"mkdir", "rm", "writeFile"}
    /\ apply.accepted[apply.i].id = io.entries[io.i].id

-----------------------------------------------------------------------------
(* One file staged under its absolute-looking and its relative filePath *)

\* number of generateChangeId calls in a run of the two spellings
MaxAliasIds == 2

\* "/home/project/src/a.ts" and "src/a.ts": one ProjectHost file
AliasPaths == {PathAbs, PathSrc}

AliasInputs ==
    {[filePath |-> p, type |-> "modify", originalContent |-> "A",
      newContent |-> v, actionId |-> a] :
         p \in AliasPaths, v \in {"B", ""}, a \in ActionIds}
    \cup
    {[filePath |-> p, type |-> "delete", originalContent |-> "A",
      newContent |-> "", actionId |-> a] : p \in AliasPaths, a \in ActionIds}

AliasStoreNext ==
    \/ \E change \in AliasInputs :
          nextId <= MaxAliasIds /\ StoreCall(stageChange(change))
    \/ \E p \in AliasPaths : StoreCall(acceptChange(p) /\ UNCHANGED nextId)
    \/ \E p \in AliasPaths : StoreCall(rejectChange(p) /\ UNCHANGED nextId)

AliasNext == AliasStoreNext \/ ApplyNext

AliasSpec == Init /\ [][AliasNext]_vars

\* C39: no two accepted entries ever share a path: any two accepted entries
\* of the store have different filePaths and different ProjectHost relative
\* paths once the /home/project prefix has been stripped.
AcceptedPathsDistinct ==
    \A i \in 1..Len(changes) : \A j \in 1..Len(changes) :
        (i # j /\ changes[i].status = "accepted"
               /\ changes[j].status = "accepted")
        => /\ changes[i].filePath # changes[j].filePath
           /\ RelativePath(changes[i].filePath)
                 # RelativePath(changes[j].filePath)

\* C39's failing case: a batch has written the file from the entry under one
\* spelling and now awaits the write of the entry under the other spelling.
SameFileWrittenTwice ==
    /\ apply.pc \in {"mkdir", "rm", "writeFile"}
    /\ apply.i = 2
    /\ Len(apply.applied) = 1
    /\ RelativePath(apply.accepted[1].filePath)
          = RelativePath(apply.accepted[2].filePath)

-----------------------------------------------------------------------------
(* applyRejectedChange on a path without a rejected entry *)

\* the store holds no rejected entry under filePath
NoRejectedEntry(filePath) ==
    \/ ~HasKey(changes, filePath)
    \/ Lookup(changes, filePath)[1].status # "rejected"

\* applyRejectedChange has been called and has returned before any await
ReturnedAtCall ==
    /\ io.pc = "idle"
    /\ io'.pc = "idle"
    /\ last'.op = "applyRejectedChange"
    /\ (last' # last \/ io' # io)

\* C40: applyRejectedChange returns success=false with an error message,
\* issues no ProjectHost call and leaves the store unchanged when no entry
\* exists for the given filePath or when the entry is pending or accepted.
RefusesUnlessRejected ==
    /\ [][(ReturnedAtCall /\ NoRejectedEntry(last'.arg))
          => /\ last'.ret.success = FALSE
             /\ last'.ret.error # ""
             /\ fs' = fs
             /\ UNCHANGED storeVars]_vars
    /\ [][(io.pc = "idle" /\ io'.pc # "idle" /\ io'.op = "applyRejectedChange")
          => /\ Len(io'.entries) = 1
             /\ io'.entries[1] \in Range(changes)
             /\ io'.entries[1].status = "rejected"]_vars

\* C40's cases: the call has been refused for an entry that is pending or
\* accepted, and the entry is still in the store.
RefusedNotRejected ==
    /\ last.op = "applyRejectedChange"
    /\ last.ret = SingleResult(FALSE, "Change is not rejected")
    /\ HasKey(changes, last.arg)
    /\ Lookup(changes, last.arg)[1].status \in {"pending", "accepted"}

====
